---- MODULE Spec2Model ----
(***************************************************************************)
(* A model of the cpp_ex header library: the checked owning pointers       *)
(* (SafeUniquePtr, SafeUniquePtr<T[]>, SafeSharedPtr), the exception they  *)
(* throw, the functional helpers, searches and snapshots of Vector and     *)
(* Map, the splitting, replacing, counting and character operations of     *)
(* String, and the copies and moves of the three.                          *)
(*                                                                         *)
(* SpecPtr is the state machine of a program that constructs, assigns,     *)
(* dereferences and destroys checked pointers.  The pointers delegate to   *)
(* std::unique_ptr / std::shared_ptr; the semantics of these two is        *)
(* written out (release / reset / control block with a strong count) so    *)
(* that ownership, use counts and deletions are computed, not assumed.     *)
(***************************************************************************)
EXTENDS Integers, Sequences, FiniteSets, TLC

VARIABLES
    cls,      \* the class the program exercises (its objects do not mix with the others')
    kind,     \* kind[p]: what the program variable p currently is ("none": not constructed)
    ptr,      \* ptr[p]: the stored pointer of p (Null or an object)
    objType,  \* objType[o]: "unalloc", or the dynamic type of the allocated object o
    objVal,   \* objVal[o]: the value stored in o
    useCnt,   \* useCnt[o]: strong count of the std::shared_ptr control block of o
    dels,     \* dels[o]: how many times a deleter has run on o
    last,     \* the operation executed last: what it was applied to and its outcome
    vec,      \* the std::vector a Vector wraps (Vector::data)
    amap,     \* the std::map a Map wraps (Map::data), receiver of the set operations
    bmap,     \* a second Map, the argument of the set operations
    str,      \* the std::string a String wraps (String::data), a sequence of characters
    vec2,     \* a second Vector, the one a Vector is copied or moved from or to
    str2,     \* a second String
    out       \* the container operation executed last and what it returned

ptrVars == <<cls, kind, ptr, objType, objVal, useCnt, dels, last>>
contVars == <<vec, amap, bmap, str, vec2, str2, out>>
vars == <<cls, kind, ptr, objType, objVal, useCnt, dels, last, vec, amap, bmap, str, vec2, str2, out>>

(***************************************************************************)
(* Bounds of the model.                                                    *)
(***************************************************************************)
MaxPtrs == 2
MaxObjs == 1

Ptrs == 1..MaxPtrs
Objs == 1..MaxObjs
Null == 0
Vals == {42, 100}

UNIQUE == "SafeUniquePtr"
UNIQUE_ARR == "SafeUniquePtrArr"
SHARED == "SafeSharedPtr"
STD_UNIQUE == "std_unique_ptr"
STD_SHARED == "std_shared_ptr"

UniqueKinds == {UNIQUE, UNIQUE_ARR}
SafeKinds == {UNIQUE, UNIQUE_ARR, SHARED}
SharedKinds == {SHARED, STD_SHARED}
ExclusiveKinds == {UNIQUE, UNIQUE_ARR, STD_UNIQUE}

DefaultWhatArg == "Null pointer access attempt"
Messages == {"Custom null pointer error"}

(***************************************************************************)
(* exceptions::NullPointerAccessException: a std::runtime_error whose      *)
(* what() is the what_arg it was constructed with.                         *)
(***************************************************************************)
\* (a variant that drops the text it is given)
NullPointerAccessException_dropsArg(what_arg) ==
    [type |-> "NullPointerAccessException", what |-> DefaultWhatArg]

NullPointerAccessException(what_arg) ==
    [type |-> "NullPointerAccessException", what |-> what_arg]

NoException == [type |-> "none", what |-> ""]

(***************************************************************************)
(* The record of the operation executed last.                              *)
(*   op: its name; msg: the text the caller supplied, if any; exc: the     *)
(*   exception object it made; thrown: whether it threw it; ret: the value *)
(*   it returned (an object for get/release, 1/0 for a boolean, the count  *)
(*   for useCount, the value read for an access), or 0.                    *)
(***************************************************************************)
NoArg == "<no argument>"

Done(op, exc, ret) ==
    [op |-> op, exc |-> exc, ret |-> ret, msg |-> NoArg, thrown |-> exc.type # "none"]

Ok(op, ret) == Done(op, NoException, ret)

Raised == last.thrown

(***************************************************************************)
(* Helpers over the heap.                                                  *)
(***************************************************************************)
Holders(o) == {p \in Ptrs : kind[p] # "none" /\ ptr[p] = o}

Allocated(o) == objType[o] # "unalloc"
Live(o) == Allocated(o) /\ dels[o] = 0

\* A raw pointer the program may hand to an owner: the result of a new
\* expression (a not yet allocated object) or a live object no owner holds
\* (one obtained from release()).
IsArrayKind(k) == k = UNIQUE_ARR
NewTypes(k) == IF IsArrayKind(k) THEN {"Array"} ELSE {"Base", "Derived"}
Released(k) == {o \in Objs : /\ Live(o)
                              /\ Holders(o) = {}
                              /\ (objType[o] = "Array") = IsArrayKind(k)}

\* what a new expression returns: the first object not allocated yet (no
\* object is allocated twice, so every run allocates at most MaxObjs objects)
Fresh == {o \in Objs : ~Allocated(o) /\ \A n \in Objs : n < o => Allocated(n)}

\* new T(42) and new T[1]()
InitialValue(t) == IF t = "Array" THEN 0 ELSE 42

\* the deleter runs on o (nothing happens for a null pointer)
Delete(dl, o) == IF o = Null THEN dl ELSE [dl EXCEPT ![o] = @ + 1]


(***************************************************************************)
(* The heap as the owning pointers see it, and the std::unique_ptr and     *)
(* std::shared_ptr primitives the wrappers delegate to.                    *)
(***************************************************************************)
Heap == [ptr |-> ptr, dels |-> dels, cnt |-> useCnt]

\* (a variant of release() that runs the deleter on the pointer it gives up)
unique_release_deletes(h, p) == [h EXCEPT !.ptr[p] = Null, !.dels = Delete(@, h.ptr[p])]

\* std::unique_ptr::release(): give up the stored pointer, delete nothing
unique_release(h, p) == [h EXCEPT !.ptr[p] = Null]

\* std::unique_ptr::reset(o): store o, then run the deleter on the old pointer
unique_reset(h, p, o) == [h EXCEPT !.ptr[p] = o, !.dels = Delete(@, h.ptr[p])]

\* a std::shared_ptr starts to share o: the strong count goes up
shared_acquire(h, o) == IF o = Null THEN h ELSE [h EXCEPT !.cnt[o] = @ + 1]

\* (a variant that deletes the object whenever a holder lets go of it)
shared_release_always(h, o) ==
    IF o = Null THEN h
    ELSE [h EXCEPT !.cnt[o] = @ - 1, !.dels = Delete(@, o)]

\* a std::shared_ptr stops sharing o: the strong count goes down, and the
\* holder that takes it to zero deletes the object
shared_release(h, o) ==
    IF o = Null THEN h
    ELSE IF h.cnt[o] = 1 THEN [h EXCEPT !.cnt[o] = 0, !.dels = Delete(@, o)]
    ELSE [h EXCEPT !.cnt[o] = @ - 1]

\* a std::shared_ptr takes ownership of the raw pointer o: a new control block
shared_adopt(h, o) == IF o = Null THEN h ELSE [h EXCEPT !.cnt[o] = 1]

(***************************************************************************)
(* One step of the pointer program: the new kinds, heap, objects and the   *)
(* record of the operation.                                                *)
(***************************************************************************)
PtrStep(k, h, t, v, l) ==
    /\ cls' = cls
    /\ kind' = k
    /\ ptr' = h.ptr
    /\ useCnt' = h.cnt
    /\ dels' = h.dels
    /\ objType' = t
    /\ objVal' = v
    /\ last' = l
    /\ UNCHANGED contVars

\* an operation that changes pointers only
HeapStep(h, l) == PtrStep(kind, h, objType, objVal, l)

\* an operation that constructs the variable d as a pointer of kind k
CtorStep(d, k, h, l) == PtrStep([kind EXCEPT ![d] = k], h, objType, objVal, l)

\* an operation that only observes
ObserveStep(l) == PtrStep(kind, Heap, objType, objVal, l)

\* the object a new expression creates at o, or o as it is when it is a
\* released object
NewType(o, t) == IF o \in Fresh THEN [objType EXCEPT ![o] = t] ELSE objType
NewVal(o, t) == IF o \in Fresh THEN [objVal EXCEPT ![o] = InitialValue(t)] ELSE objVal

\* the raw pointers a pointer of kind k can be given, each with its type
RawPointers(k) ==
    {<<o, t>> \in Objs \X {"Base", "Derived", "Array"} :
        \/ o \in Fresh /\ t \in NewTypes(k)
        \/ o \in Released(k) /\ t = objType[o]}

(***************************************************************************)
(* SafeUniquePtr<T, Deleter> and SafeUniquePtr<T[]>.                       *)
(***************************************************************************)
\* SafeUniquePtr() and SafeUniquePtr(nullptr)
SafeUniquePtr_defaultCtor(d, k) ==
    /\ kind[d] = "none"
    /\ k = cls /\ k \in UniqueKinds
    /\ CtorStep(d, k, [Heap EXCEPT !.ptr[d] = Null], Ok("SafeUniquePtr()", 0))

\* explicit SafeUniquePtr(T *p), also with a deleter
SafeUniquePtr_rawCtor(d, k, o, t) ==
    /\ kind[d] = "none"
    /\ k = cls /\ k \in UniqueKinds
    /\ <<o, t>> \in RawPointers(k)
    /\ PtrStep([kind EXCEPT ![d] = k], [Heap EXCEPT !.ptr[d] = o],
               NewType(o, t), NewVal(o, t), Ok("SafeUniquePtr(T*)", 0))

\* makeSafeUnique<T>(args): SafeUniquePtr<T>(new T(args))
makeSafeUnique(d, o, t) ==
    /\ kind[d] = "none"
    /\ cls = UNIQUE
    /\ o \in Fresh
    /\ t \in NewTypes(UNIQUE)
    /\ PtrStep([kind EXCEPT ![d] = UNIQUE], [Heap EXCEPT !.ptr[d] = o],
               NewType(o, t), NewVal(o, t), Ok("makeSafeUnique", 0))

\* makeSafeUnique<T[]>(size): a size of 0 is raised to 1, the elements are
\* value-initialised
ArraySize(size) == IF size = 0 THEN 1 ELSE size

makeSafeUniqueArray(d, o, size) ==
    /\ kind[d] = "none"
    /\ cls = UNIQUE_ARR
    /\ o \in Fresh
    /\ PtrStep([kind EXCEPT ![d] = UNIQUE_ARR], [Heap EXCEPT !.ptr[d] = o],
               NewType(o, "Array"), NewVal(o, "Array"),
               Ok("makeSafeUnique<T[]>", ArraySize(size)))

\* (a variant that copies the pointer and leaves it in the source as well)
UniqueMoveCtor_keepsSource(h, d, s) == [h EXCEPT !.ptr[d] = h.ptr[s]]

\* SafeUniquePtr(SafeUniquePtr &&other), also the converting form
UniqueMoveCtor(h, d, s) == [unique_release(h, s) EXCEPT !.ptr[d] = h.ptr[s]]

SafeUniquePtr_moveCtor(d, s) ==
    /\ kind[d] = "none"
    /\ kind[s] \in UniqueKinds
    /\ CtorStep(d, kind[s], UniqueMoveCtor(Heap, d, s),
                Ok("SafeUniquePtr(&&)", 0))

\* (a variant that does not take the pointer out of the source)
UniqueMoveAssign_keepsSource(h, d, s) == unique_reset(h, d, h.ptr[s])

\* operator=(SafeUniquePtr &&other), also the converting form:
\* std::unique_ptr move assignment is reset(other.release())
UniqueMoveAssign(h, d, s) == unique_reset(unique_release(h, s), d, h.ptr[s])

SafeUniquePtr_moveAssign(d, s) ==
    /\ kind[d] \in UniqueKinds
    /\ kind[s] = kind[d]
    /\ HeapStep(UniqueMoveAssign(Heap, d, s), Ok("operator=(&&)", 0))

\* operator=(std::nullptr_t)
SafeUniquePtr_assignNull(d) ==
    /\ kind[d] \in UniqueKinds
    /\ HeapStep(unique_reset(Heap, d, Null), Ok("operator=(nullptr)", 0))

\* reset()
UniqueReset(h, d) == unique_reset(h, d, Null)

SafeUniquePtr_reset(d) ==
    /\ kind[d] \in UniqueKinds
    /\ HeapStep(UniqueReset(Heap, d), Ok("reset()", 0))

\* reset(T *p)
SafeUniquePtr_resetRaw(d, o, t) ==
    /\ kind[d] \in UniqueKinds
    /\ <<o, t>> \in RawPointers(kind[d])
    /\ PtrStep(kind, unique_reset(Heap, d, o), NewType(o, t), NewVal(o, t),
               Ok("reset(T*)", 0))

\* (a variant of release() that checks for null as the access operators do)
SafeUniquePtr_release_checked(d) ==
    /\ kind[d] \in UniqueKinds
    /\ IF ptr[d] = Null
       THEN ObserveStep(Done("release()", NullPointerAccessException(DefaultWhatArg), 0))
       ELSE HeapStep(unique_release(Heap, d), Ok("release()", ptr[d]))

\* release(): returns the stored pointer, which is no longer managed
UniqueRelease(h, d) == unique_release(h, d)

SafeUniquePtr_release(d) ==
    /\ kind[d] \in UniqueKinds
    /\ HeapStep(UniqueRelease(Heap, d), Ok("release()", ptr[d]))

\* swap(SafeUniquePtr &other)
PtrSwap(h, a, b) == [h EXCEPT !.ptr[a] = h.ptr[b], !.ptr[b] = h.ptr[a]]

SafeUniquePtr_swap(a, b) ==
    /\ kind[a] \in UniqueKinds
    /\ kind[b] = kind[a]
    /\ HeapStep(PtrSwap(Heap, a, b), Ok("swap()", 0))

\* toUniquePtr() &&: the std::unique_ptr d is move-constructed from ptr
SafeUniquePtr_toUniquePtr(d, s) ==
    /\ kind[d] = "none"
    /\ kind[s] = UNIQUE
    /\ CtorStep(d, STD_UNIQUE, UniqueMoveCtor(Heap, d, s),
                Ok("toUniquePtr()", 0))


(***************************************************************************)
(* SafeSharedPtr<T>.                                                       *)
(***************************************************************************)
\* SafeSharedPtr() and SafeSharedPtr(nullptr)
SafeSharedPtr_defaultCtor(d) ==
    /\ kind[d] = "none"
    /\ cls = SHARED
    /\ CtorStep(d, SHARED, [Heap EXCEPT !.ptr[d] = Null], Ok("SafeSharedPtr()", 0))

\* explicit SafeSharedPtr(U *p)
SharedRawCtor(h, d, o) == shared_adopt([h EXCEPT !.ptr[d] = o], o)

SafeSharedPtr_rawCtor(d, o, t) ==
    /\ kind[d] = "none"
    /\ cls = SHARED
    /\ <<o, t>> \in RawPointers(SHARED)
    /\ PtrStep([kind EXCEPT ![d] = SHARED], SharedRawCtor(Heap, d, o),
               NewType(o, t), NewVal(o, t), Ok("SafeSharedPtr(U*)", 0))

\* (a variant that copies the pointer without sharing the control block)
SharedCopyCtor_noAcquire(h, d, s) == [h EXCEPT !.ptr[d] = h.ptr[s]]

\* SafeSharedPtr(const SafeSharedPtr &other), the converting form, and
\* SafeSharedPtr(const std::shared_ptr<U> &other)
SharedCopyCtor(h, d, s) == shared_acquire([h EXCEPT !.ptr[d] = h.ptr[s]], h.ptr[s])

\* makeSafeShared<T>(args): SafeSharedPtr<T>(std::make_shared<T>(args)); the
\* temporary std::shared_ptr is copied from and then destroyed
MakeShared(h, d, o) ==
    LET made == shared_adopt(h, o)
        copied == shared_acquire([made EXCEPT !.ptr[d] = o], o)
    IN shared_release(copied, o)

makeSafeShared(d, o, t) ==
    /\ kind[d] = "none"
    /\ cls = SHARED
    /\ o \in Fresh
    /\ t \in NewTypes(SHARED)
    /\ PtrStep([kind EXCEPT ![d] = SHARED], MakeShared(Heap, d, o),
               NewType(o, t), NewVal(o, t), Ok("makeSafeShared", 0))

SafeSharedPtr_copyCtor(d, s) ==
    /\ kind[d] = "none"
    /\ kind[s] \in SharedKinds
    /\ CtorStep(d, SHARED, SharedCopyCtor(Heap, d, s),
                Ok("SafeSharedPtr(const&)", 0))

\* SafeSharedPtr(SafeSharedPtr &&other), also the converting form
SharedMoveCtor(h, d, s) == [h EXCEPT !.ptr[d] = h.ptr[s], !.ptr[s] = Null]

SafeSharedPtr_moveCtor(d, s) ==
    /\ kind[d] = "none"
    /\ kind[s] = SHARED
    /\ CtorStep(d, SHARED, SharedMoveCtor(Heap, d, s),
                Ok("SafeSharedPtr(&&)", 0))

\* operator=(const SafeSharedPtr &other), the converting form, and
\* operator=(const std::shared_ptr<U> &other):
\* std::shared_ptr copy assignment is shared_ptr(other).swap(*this)
SharedCopyAssign(h, d, s) ==
    LET copied == shared_acquire(h, h.ptr[s])
        swapped == [copied EXCEPT !.ptr[d] = h.ptr[s]]
    IN shared_release(swapped, h.ptr[d])

SafeSharedPtr_copyAssign(d, s) ==
    /\ kind[d] = SHARED
    /\ kind[s] \in SharedKinds
    /\ HeapStep(SharedCopyAssign(Heap, d, s), Ok("operator=(const&)", 0))

\* operator=(SafeSharedPtr &&other), also the converting form:
\* std::shared_ptr move assignment is shared_ptr(std::move(other)).swap(*this)
SharedMoveAssign(h, d, s) ==
    LET moved == [h EXCEPT !.ptr[s] = Null]
        swapped == [moved EXCEPT !.ptr[d] = h.ptr[s]]
    IN shared_release(swapped, moved.ptr[d])

SafeSharedPtr_moveAssign(d, s) ==
    /\ kind[d] = SHARED
    /\ kind[s] = SHARED
    /\ HeapStep(SharedMoveAssign(Heap, d, s), Ok("operator=(&&)", 0))

\* reset(): std::shared_ptr().swap(*this)
SharedReset(h, d) == shared_release([h EXCEPT !.ptr[d] = Null], h.ptr[d])

SafeSharedPtr_reset(d) ==
    /\ kind[d] = SHARED
    /\ HeapStep(SharedReset(Heap, d), Ok("reset()", 0))

\* operator=(std::nullptr_t)
SafeSharedPtr_assignNull(d) ==
    /\ kind[d] = SHARED
    /\ HeapStep(SharedReset(Heap, d), Ok("operator=(nullptr)", 0))

\* reset(U *p): std::shared_ptr(p).swap(*this)
SharedResetRaw(h, d, o) == shared_release(shared_adopt([h EXCEPT !.ptr[d] = o], o), h.ptr[d])

SafeSharedPtr_resetRaw(d, o, t) ==
    /\ kind[d] = SHARED
    /\ <<o, t>> \in RawPointers(SHARED)
    /\ PtrStep(kind, SharedResetRaw(Heap, d, o), NewType(o, t), NewVal(o, t),
               Ok("reset(U*)", 0))

\* swap(SafeSharedPtr &other)
SafeSharedPtr_swap(a, b) ==
    /\ kind[a] = SHARED
    /\ kind[b] = SHARED
    /\ HeapStep(PtrSwap(Heap, a, b), Ok("swap()", 0))

\* useCount(): ptr.use_count(), 0 for an empty pointer
UseCount(h, p) == IF h.ptr[p] = Null THEN 0 ELSE h.cnt[h.ptr[p]]

SafeSharedPtr_useCount(p) ==
    /\ kind[p] = SHARED
    /\ ObserveStep(Ok("useCount()", UseCount(Heap, p)))

\* toSharedPtr(): the std::shared_ptr d is a copy of ptr
SafeSharedPtr_toSharedPtr(d, s) ==
    /\ kind[d] = "none"
    /\ kind[s] = SHARED
    /\ CtorStep(d, STD_SHARED, SharedCopyCtor(Heap, d, s),
                Ok("toSharedPtr()", 0))

(***************************************************************************)
(* The cast helpers,                                                       *)
(*   SafeSharedPtr<T>(std::X_pointer_cast<T>(r.toSharedPtr())).            *)
(* r.toSharedPtr() is a temporary copy of r; the cast yields a             *)
(* std::shared_ptr that shares ownership with it, or an empty one when     *)
(* dynamic_cast gives a null pointer; the result is copied from that and   *)
(* both temporaries are destroyed.                                         *)
(***************************************************************************)
\* (a variant that casts without looking at the dynamic type)
DynamicCast_unchecked(o) == o

\* dynamic_cast<Derived *>(o)
DynamicCast(o) == IF o # Null /\ objType[o] = "Derived" THEN o ELSE Null

PointerCast(h, d, s, target) ==
    LET src == h.ptr[s]
        temp == shared_acquire(h, src)                      \* r.toSharedPtr()
        cast == shared_acquire(temp, target)                \* the cast's result
        made == shared_acquire([cast EXCEPT !.ptr[d] = target], target)
    IN shared_release(shared_release(made, target), src)

safeStaticPointerCast(d, s) ==
    /\ kind[d] = "none"
    /\ kind[s] = SHARED
    /\ CtorStep(d, SHARED, PointerCast(Heap, d, s, ptr[s]),
                Ok("safeStaticPointerCast", 0))

safeDynamicPointerCast(d, s) ==
    /\ kind[d] = "none"
    /\ kind[s] = SHARED
    /\ CtorStep(d, SHARED, PointerCast(Heap, d, s, DynamicCast(ptr[s])),
                Ok("safeDynamicPointerCast", 0))

safeConstPointerCast(d, s) ==
    /\ kind[d] = "none"
    /\ kind[s] = SHARED
    /\ CtorStep(d, SHARED, PointerCast(Heap, d, s, ptr[s]),
                Ok("safeConstPointerCast", 0))


(***************************************************************************)
(* The checked access operators.                                           *)
(***************************************************************************)
\* if (!ptr) throw exceptions::NullPointerAccessException();
NullCheck(h, p) ==
    IF h.ptr[p] = Null THEN NullPointerAccessException(DefaultWhatArg) ELSE NoException

\* what reading the object at o can give: its value, or anything when the
\* object has been deleted (a dangling pointer)
Read(o) == IF Live(o) THEN {objVal[o]} ELSE Vals \cup {0}

\* operator*, operator-> and operator[] used to read
Access(op, p, i) ==
    IF NullCheck(Heap, p).type # "none"
    THEN ObserveStep(Done(op, NullCheck(Heap, p), 0))
    ELSE \E r \in (IF i = 0 THEN Read(ptr[p]) ELSE Vals \cup {0}) :
             ObserveStep(Ok(op, r))

\* operator* and operator-> used to write: *p = v, p->setValue(v)
AccessWrite(op, p, v) ==
    IF NullCheck(Heap, p).type # "none"
    THEN ObserveStep(Done(op, NullCheck(Heap, p), 0))
    ELSE PtrStep(kind, Heap, objType, [objVal EXCEPT ![ptr[p]] = v], Ok(op, v))

SafeUniquePtr_deref(p) == kind[p] = UNIQUE /\ Access("operator*", p, 0)
SafeUniquePtr_arrow(p) == kind[p] = UNIQUE /\ Access("operator->", p, 0)
SafeUniquePtr_derefAssign(p, v) == kind[p] = UNIQUE /\ AccessWrite("operator*=", p, v)

\* SafeUniquePtr<T[]>::operator[](i): the index is not checked; the arrays of
\* the model have one element, so i = 1 reads past the end
SafeUniquePtr_index(p, i) == kind[p] = UNIQUE_ARR /\ Access("operator[]", p, i)

SafeSharedPtr_deref(p) == kind[p] = SHARED /\ Access("operator*", p, 0)
SafeSharedPtr_arrow(p) == kind[p] = SHARED /\ Access("operator->", p, 0)
SafeSharedPtr_derefAssign(p, v) == kind[p] = SHARED /\ AccessWrite("operator*=", p, v)

AccessOps == {"operator*", "operator->", "operator*=", "operator[]"}

\* get(), isNull() and explicit operator bool(), of all three classes
Bool(b) == IF b THEN 1 ELSE 0

get(p) == kind[p] \in SafeKinds /\ ObserveStep(Ok("get()", ptr[p]))
isNull(p) == kind[p] \in SafeKinds /\ ObserveStep(Ok("isNull()", Bool(ptr[p] = Null)))
operator_bool(p) ==
    kind[p] \in SafeKinds /\ ObserveStep(Ok("operator bool", Bool(ptr[p] # Null)))

(***************************************************************************)
(* The end of a pointer's lifetime: ~unique_ptr deletes what it holds,     *)
(* ~shared_ptr gives up its share.                                         *)
(***************************************************************************)
Destructor(h, p) ==
    IF kind[p] \in ExclusiveKinds THEN unique_reset(h, p, Null) ELSE SharedReset(h, p)

destroy(p) ==
    /\ kind[p] # "none"
    /\ CtorStep(p, "none", Destructor(Heap, p), Ok("destructor", 0))

(***************************************************************************)
(* NullPointerAccessException(what_arg = "Null pointer access attempt")    *)
(* constructed by the program itself.                                      *)
(***************************************************************************)
WhatArg(a) == IF a = NoArg THEN DefaultWhatArg ELSE a

constructException(a) ==
    ObserveStep([Ok("NullPointerAccessException", 0) EXCEPT
                    !.msg = a, !.exc = NullPointerAccessException(WhatArg(a))])

(***************************************************************************)
(* The pointer program.                                                    *)
(***************************************************************************)
ContIdle ==
    /\ vec = <<>>
    /\ amap = <<>>
    /\ bmap = <<>>
    /\ str = <<>>
    /\ vec2 = <<>>
    /\ str2 = <<>>
    /\ out = [op |-> "none"]

InitPtr ==
    /\ cls \in SafeKinds
    /\ kind = [p \in Ptrs |-> "none"]
    /\ ptr = [p \in Ptrs |-> Null]
    /\ objType = [o \in Objs |-> "unalloc"]
    /\ objVal = [o \in Objs |-> 0]
    /\ useCnt = [o \in Objs |-> 0]
    /\ dels = [o \in Objs |-> 0]
    /\ last = Ok("none", 0)
    /\ ContIdle

NextPtr ==
    \/ \E d \in Ptrs, k \in UniqueKinds : SafeUniquePtr_defaultCtor(d, k)
    \/ \E d \in Ptrs, k \in UniqueKinds, o \in Objs, t \in {"Base", "Derived", "Array"} :
           SafeUniquePtr_rawCtor(d, k, o, t)
    \/ \E d \in Ptrs, o \in Objs, t \in {"Base", "Derived"} :
           makeSafeUnique(d, o, t)
    \/ \E d \in Ptrs, o \in Objs, size \in {0, 1} : makeSafeUniqueArray(d, o, size)
    \/ \E d, s \in Ptrs : SafeUniquePtr_moveCtor(d, s)
    \/ \E d, s \in Ptrs : SafeUniquePtr_moveAssign(d, s)
    \/ \E d \in Ptrs : SafeUniquePtr_assignNull(d)
    \/ \E d \in Ptrs : SafeUniquePtr_reset(d)
    \/ \E d \in Ptrs, o \in Objs, t \in {"Base", "Derived", "Array"} :
           SafeUniquePtr_resetRaw(d, o, t)
    \/ \E d \in Ptrs : SafeUniquePtr_release(d)
    \/ \E a, b \in Ptrs : SafeUniquePtr_swap(a, b)
    \/ \E d, s \in Ptrs : SafeUniquePtr_toUniquePtr(d, s)
    \/ \E d \in Ptrs : SafeSharedPtr_defaultCtor(d)
    \/ \E d \in Ptrs, o \in Objs, t \in {"Base", "Derived"} :
           SafeSharedPtr_rawCtor(d, o, t)
    \/ \E d \in Ptrs, o \in Objs, t \in {"Base", "Derived"} :
           makeSafeShared(d, o, t)
    \/ \E d, s \in Ptrs : SafeSharedPtr_copyCtor(d, s)
    \/ \E d, s \in Ptrs : SafeSharedPtr_moveCtor(d, s)
    \/ \E d, s \in Ptrs : SafeSharedPtr_copyAssign(d, s)
    \/ \E d, s \in Ptrs : SafeSharedPtr_moveAssign(d, s)
    \/ \E d \in Ptrs : SafeSharedPtr_reset(d)
    \/ \E d \in Ptrs : SafeSharedPtr_assignNull(d)
    \/ \E d \in Ptrs, o \in Objs, t \in {"Base", "Derived"} :
           SafeSharedPtr_resetRaw(d, o, t)
    \/ \E a, b \in Ptrs : SafeSharedPtr_swap(a, b)
    \/ \E p \in Ptrs : SafeSharedPtr_useCount(p)
    \/ \E d, s \in Ptrs : SafeSharedPtr_toSharedPtr(d, s)
    \/ \E d, s \in Ptrs : safeStaticPointerCast(d, s)
    \/ \E d, s \in Ptrs : safeDynamicPointerCast(d, s)
    \/ \E d, s \in Ptrs : safeConstPointerCast(d, s)
    \/ \E p \in Ptrs : SafeUniquePtr_deref(p)
    \/ \E p \in Ptrs : SafeUniquePtr_arrow(p)
    \/ \E p \in Ptrs, v \in Vals : SafeUniquePtr_derefAssign(p, v)
    \/ \E p \in Ptrs, i \in {0, 1} : SafeUniquePtr_index(p, i)
    \/ \E p \in Ptrs : SafeSharedPtr_deref(p)
    \/ \E p \in Ptrs : SafeSharedPtr_arrow(p)
    \/ \E p \in Ptrs, v \in Vals : SafeSharedPtr_derefAssign(p, v)
    \/ \E p \in Ptrs : get(p)
    \/ \E p \in Ptrs : isNull(p)
    \/ \E p \in Ptrs : operator_bool(p)
    \/ \E p \in Ptrs : destroy(p)
    \/ \E a \in Messages \cup {NoArg} : constructException(a)

SpecPtr == InitPtr /\ [][NextPtr]_vars


(***************************************************************************)
(* Properties of the checked pointers.                                     *)
(***************************************************************************)
\* operator* or operator-> is applied to p, to read or to write
DerefStep(p) ==
    \/ SafeUniquePtr_deref(p)
    \/ SafeUniquePtr_arrow(p)
    \/ SafeSharedPtr_deref(p)
    \/ SafeSharedPtr_arrow(p)

DerefAssignStep(p, v) ==
    \/ SafeUniquePtr_derefAssign(p, v)
    \/ SafeSharedPtr_derefAssign(p, v)

\* C1: whatever was done before, applying * or -> to a SafeUniquePtr or a
\* SafeSharedPtr throws NullPointerAccessException exactly when the pointer
\* is empty at that moment; on a non-empty pointer nothing is thrown, the
\* object held is alive, a read yields its value and a write is stored in it
\* (so that a later read through any pointer to it yields what was written).
C1_DerefThrowsIffEmpty ==
    [][\A p \in Ptrs :
          /\ DerefStep(p) =>
                /\ last'.thrown <=> ptr[p] = Null
                /\ last'.thrown => last'.exc.type = "NullPointerAccessException"
                /\ ptr[p] # Null => Live(ptr[p]) /\ last'.ret = objVal[ptr[p]]
                /\ ptr' = ptr /\ objVal' = objVal
          /\ \A v \in Vals : DerefAssignStep(p, v) =>
                /\ last'.thrown <=> ptr[p] = Null
                /\ last'.thrown => last'.exc.type = "NullPointerAccessException"
                /\ ptr[p] # Null => Live(ptr[p]) /\ objVal'[ptr[p]] = v
                /\ ptr' = ptr
      ]_vars

\* an empty pointer has been dereferenced and has thrown, while another
\* pointer holds a live object
C1_Witness ==
    /\ last.op \in {"operator*", "operator->"}
    /\ last.thrown
    /\ \E p, q \in Ptrs : /\ kind[p] \in {UNIQUE, SHARED} /\ ptr[p] = Null
                          /\ kind[q] \in {UNIQUE, SHARED} /\ ptr[q] # Null

\* C2: NullPointerAccessException is thrown by the dereference, member
\* access and array index operators only: every other operation of the
\* pointers (get, isNull, bool, reset, release, swap, useCount, the
\* assignments, toSharedPtr, the casts, ...) completes without throwing,
\* also on an empty pointer.
C2_OnlyAccessThrows == Raised => last.op \in AccessOps

\* release() has been called on an empty pointer and has returned nullptr
C2_Witness == last.op = "release()" /\ last.ret = Null /\ ~Raised

\* C3: the exception thrown for an empty pointer carries the default text
\* "Null pointer access attempt" (the pointers supply no text), and an
\* exception constructed with a text carries that text.
C3_ExceptionMessage ==
    /\ Raised => last.exc.what = "Null pointer access attempt"
    /\ last.op = "NullPointerAccessException" =>
          last.exc.what = (IF last.msg = NoArg THEN "Null pointer access attempt"
                           ELSE last.msg)

\* an empty pointer has been dereferenced with -> and the exception carries
\* its text
C3_Witness == last.op = "operator->" /\ Raised /\ last.exc.what # ""


\* a move from s into d: move construction, move assignment, toUniquePtr
UniqueMoveStep(d, s) ==
    \/ SafeUniquePtr_moveCtor(d, s)
    \/ SafeUniquePtr_moveAssign(d, s)
    \/ SafeUniquePtr_toUniquePtr(d, s)

\* what release(), reset() and operator=(nullptr) do to d
UniqueClearOk(d) ==
    /\ SafeUniquePtr_release(d) =>
          /\ last'.ret = ptr[d]
          /\ ptr'[d] = Null
          /\ dels' = dels
    /\ SafeUniquePtr_reset(d) \/ SafeUniquePtr_assignNull(d) => ptr'[d] = Null

\* C4 as stated: every move of a SafeUniquePtr leaves the source empty and
\* the destination holding the object the source held; release() returns
\* the object held and leaves the pointer empty without deleting the object;
\* reset() and operator=(nullptr) leave the pointer empty.
C4_MoveEmptiesSource ==
    [][\A d, s \in Ptrs :
          /\ UniqueMoveStep(d, s) => ptr'[d] = ptr[s] /\ ptr'[s] = Null
          /\ UniqueClearOk(d)
      ]_vars

\* C4 amended: the same, the source being left empty when it is another
\* pointer than the destination; a pointer move-assigned to itself keeps
\* the object it holds.
C4_MoveTransfers ==
    [][\A d, s \in Ptrs :
          /\ UniqueMoveStep(d, s) =>
                /\ ptr'[d] = ptr[s]
                /\ s # d => ptr'[s] = Null
                /\ s = d => ptr'[s] = ptr[s] /\ dels' = dels
          /\ UniqueClearOk(d)
      ]_vars

\* a SafeUniquePtr has been move-assigned from another one, which is now
\* empty, and holds an object
C4_Witness ==
    /\ last.op = "operator=(&&)"
    /\ \E d, s \in Ptrs : /\ d # s
                          /\ kind[d] = UNIQUE /\ ptr[d] # Null
                          /\ kind[s] = UNIQUE /\ ptr[s] = Null


\* the number of live holders of the object p holds: the SafeSharedPtr and
\* std::shared_ptr variables that share it
HolderCount(p) == IF ptr[p] = Null THEN 0 ELSE Cardinality(Holders(ptr[p]))
HolderCountAfter(o) == Cardinality({p \in Ptrs : kind'[p] # "none" /\ ptr'[p] = o})

\* useCount() of every SafeSharedPtr is the number of live holders of its
\* object, and 0 when it is empty; useCount() returns that number
UseCountIsHolders ==
    \A p \in Ptrs : kind[p] \in SharedKinds => UseCount(Heap, p) = HolderCount(p)

UseCountReturnsHolders ==
    \A p \in Ptrs : SafeSharedPtr_useCount(p) => last'.ret = HolderCount(p)

SharedCopyStep(d, s) ==
    \/ SafeSharedPtr_copyCtor(d, s)
    \/ SafeSharedPtr_copyAssign(d, s)
    \/ SafeSharedPtr_toSharedPtr(d, s)

SharedMoveStep(d, s) ==
    \/ SafeSharedPtr_moveCtor(d, s)
    \/ SafeSharedPtr_moveAssign(d, s)

SharedDropStep(d) ==
    \/ SafeSharedPtr_reset(d)
    \/ SafeSharedPtr_assignNull(d)
    \/ kind[d] \in SharedKinds /\ destroy(d)

\* C5 as stated: useCount() is the number of live holders; every copy
\* raises the count of the object by one, destroying or resetting a holder
\* lowers it by one, every move leaves it unchanged and the source empty.
C5_EveryCopyAndMove ==
    /\ []UseCountIsHolders
    /\ [][/\ UseCountReturnsHolders
          /\ \A d, s \in Ptrs :
                /\ SharedCopyStep(d, s) /\ ptr[s] # Null =>
                      useCnt'[ptr[s]] = useCnt[ptr[s]] + 1
                /\ SharedMoveStep(d, s) /\ ptr[s] # Null =>
                      useCnt'[ptr[s]] = useCnt[ptr[s]] /\ ptr'[s] = Null
                /\ SharedDropStep(d) /\ ptr[d] # Null =>
                      useCnt'[ptr[d]] = useCnt[ptr[d]] - 1
         ]_vars

\* C5 amended: useCount() is the number of live holders, 0 for an empty
\* pointer; a copy into a pointer that did not hold the object raises its
\* count by one (a copy into a holder of the same object leaves it
\* unchanged); destroying or resetting a holder lowers it by one; a move
\* into another pointer leaves that other pointer holding the object and the
\* source empty, the count unchanged when the destination did not hold the
\* object and one lower when it did; a move of a pointer into itself
\* changes nothing.
C5_UseCountIsHolders ==
    /\ []UseCountIsHolders
    /\ [][/\ UseCountReturnsHolders
          /\ \A d, s \in Ptrs :
                /\ SharedCopyStep(d, s) /\ ptr[s] # Null =>
                      /\ ptr'[d] = ptr[s] /\ ptr'[s] = ptr[s]
                      /\ useCnt'[ptr[s]] =
                            (IF kind[d] # "none" /\ ptr[d] = ptr[s]
                             THEN useCnt[ptr[s]] ELSE useCnt[ptr[s]] + 1)
                /\ SharedMoveStep(d, s) /\ ptr[s] # Null =>
                      /\ ptr'[d] = ptr[s]
                      /\ s # d => ptr'[s] = Null
                      /\ useCnt'[ptr[s]] =
                            (IF s # d /\ kind[d] # "none" /\ ptr[d] = ptr[s]
                             THEN useCnt[ptr[s]] - 1 ELSE useCnt[ptr[s]])
                /\ SharedDropStep(d) /\ ptr[d] # Null =>
                      useCnt'[ptr[d]] = useCnt[ptr[d]] - 1
         ]_vars

\* useCount() has returned 2: a SafeSharedPtr and a copy of it share an object
C5_Witness ==
    /\ last.op = "useCount()" /\ last.ret = 2
    /\ \E p, q \in Ptrs : p # q /\ kind[p] = SHARED /\ ptr[p] # Null /\ ptr[q] = ptr[p]

\* C6: an object held by SafeSharedPtr is deleted exactly once, and that at
\* the moment its last holder is destroyed, reset or reassigned: it is not
\* deleted while a holder refers to it, and it is deleted (once) as soon as
\* none does.
C6_LivesAsLongAsHolders ==
    cls = SHARED =>
        \A o \in Objs : Allocated(o) => dels[o] = (IF Holders(o) = {} THEN 1 ELSE 0)

\* the last holder of an object has been reset and the object has been
\* deleted
C6_Witness ==
    /\ cls = SHARED
    /\ last.op = "reset()"
    /\ \E o \in Objs : dels[o] = 1 /\ Holders(o) = {}
    /\ \A p \in Ptrs : kind[p] = SHARED

\* C7: safeDynamicPointerCast returns an empty pointer when the source is
\* empty or its object is not of the target type, and then the source and
\* every use count are as before; otherwise the result holds the object of
\* the source and shares ownership with it: the count is one higher.
C7_DynamicCast ==
    [][\A d, s \in Ptrs : safeDynamicPointerCast(d, s) =>
          /\ kind'[d] = SHARED
          /\ ptr'[s] = ptr[s]
          /\ IF ptr[s] = Null \/ objType[ptr[s]] # "Derived"
             THEN ptr'[d] = Null /\ useCnt' = useCnt /\ dels' = dels
             ELSE /\ ptr'[d] = ptr[s]
                  /\ useCnt'[ptr[s]] = useCnt[ptr[s]] + 1
                  /\ useCnt'[ptr[s]] = HolderCountAfter(ptr[s])
                  /\ dels' = dels
      ]_vars

\* a cast of a pointer to an object that is not of the target type has
\* given an empty pointer
C7_Witness ==
    /\ last.op = "safeDynamicPointerCast"
    /\ \E d, s \in Ptrs : /\ kind[d] = SHARED /\ ptr[d] = Null
                          /\ kind[s] = SHARED /\ ptr[s] # Null
                          /\ objType[ptr[s]] = "Base"


\* C29: in a program of SafeUniquePtr that gives a raw pointer to one owner
\* only, no object is ever held by two pointers, no object is deleted
\* twice and no held object is deleted; a step deletes an object, once,
\* exactly when it takes the object from its owner without giving it to
\* another one and is not release(): the owner is destroyed, reset or
\* assigned to; release() takes the object and deletes nothing.
C29_ExclusiveOwnership ==
    /\ [](cls \in UniqueKinds =>
            \A o \in Objs :
               /\ Cardinality(Holders(o)) <= 1
               /\ dels[o] <= 1
               /\ Holders(o) # {} => dels[o] = 0)
    /\ [][(cls \in UniqueKinds) =>
            \A o \in Objs :
               dels'[o] = IF /\ Holders(o) # {}
                             /\ HolderCountAfter(o) = 0
                             /\ last'.op # "release()"
                          THEN dels[o] + 1
                          ELSE dels[o]
         ]_vars

\* release() has returned an object: no pointer holds it and it is not deleted
C29_Witness ==
    /\ cls = UNIQUE
    /\ last.op = "release()"
    /\ last.ret # Null
    /\ Holders(last.ret) = {}
    /\ Live(last.ret)


(***************************************************************************)
(* Vector<T>: a wrapper of std::vector<T> (Vector::data).  The functional  *)
(* helpers are const and run a standard algorithm over data; the           *)
(* algorithms are written out as the loops they are.                       *)
(***************************************************************************)
MaxLen == 3

Elems == {1, 2, 3}

\* predicates on the elements (pure: the answer depends on the element only)
Preds == [Elems -> BOOLEAN]

\* the functions handed to map(): one keeps the element type, one changes it
Funcs == {"square", "toString"}

Apply(func, n) ==
    IF func = "square" THEN n * n ELSE "Number " \o ToString(n)

\* what no pointer operation has touched
PtrIdle ==
    /\ cls = "none"
    /\ kind = [p \in Ptrs |-> "none"]
    /\ ptr = [p \in Ptrs |-> Null]
    /\ objType = [o \in Objs |-> "unalloc"]
    /\ objVal = [o \in Objs |-> 0]
    /\ useCnt = [o \in Objs |-> 0]
    /\ dels = [o \in Objs |-> 0]
    /\ last = Ok("none", 0)

\* how a call ended ("return", or the exception that left it), on what
\* argument, and what it gave
Ended(op, arg, ret, end) == [op |-> op, ret |-> ret, arg |-> arg, end |-> end]

Returned(op, arg, ret) == Ended(op, arg, ret, "return")

\* *std::back_inserter(c) = x  is  c.push_back(x)
back_inserter_atFront(c, x) == <<x>> \o c

back_inserter(c, x) == Append(c, x)

\* std::count_if(first, last, pred)
RECURSIVE count_if(_, _, _, _)
count_if(data, first, pred, n) ==
    IF first > Len(data) THEN n
    ELSE count_if(data, first + 1, pred, IF pred[data[first]] THEN n + 1 ELSE n)

\* std::copy_if(first, last, d_first, pred)
RECURSIVE copy_if(_, _, _, _)
copy_if(data, first, result, pred) ==
    IF first > Len(data) THEN result
    ELSE copy_if(data, first + 1,
                 IF pred[data[first]] THEN back_inserter(result, data[first])
                                      ELSE result,
                 pred)

\* std::transform(first, last, d_first, unary_op)
transform_dropsLast(data, first, result, func) ==
    [i \in 1..(Len(data) - 1) |-> Apply(func, data[i])]

RECURSIVE transform(_, _, _, _)
transform(data, first, result, func) ==
    IF first > Len(data) THEN result
    ELSE transform(data, first + 1,
                   back_inserter(result, Apply(func, data[first])), func)

countIf(data, pred) == count_if(data, 1, pred, 0)

filter(data, pred) == copy_if(data, 1, <<>>, pred)

map(data, func) == transform(data, 1, <<>>, func)

\* size_type: an unsigned integer of SizeBits bits (64 in the build; the
\* width is scaled to the integers the checker has)
SizeBits == 30

\* static_cast<size_type>(n)
size_type(n) == n % (2 ^ SizeBits)

\* std::find(first, last, value): the position of the first element equal
\* to value, last (one past the end) when there is none
RECURSIVE std_find(_, _, _)
std_find(data, first, value) ==
    IF first > Len(data) THEN first
    ELSE IF data[first] = value THEN first
    ELSE std_find(data, first + 1, value)

\* std::find_if(first, last, pred)
find_if_fromBack(data, first, pred) ==
    IF \E i \in first..Len(data) : pred[data[i]]
    THEN CHOOSE i \in first..Len(data) :
            pred[data[i]] /\ \A j \in (i + 1)..Len(data) : ~pred[data[j]]
    ELSE Len(data) + 1

RECURSIVE find_if(_, _, _)
find_if(data, first, pred) ==
    IF first > Len(data) THEN first
    ELSE IF pred[data[first]] THEN first
    ELSE find_if(data, first + 1, pred)

VecStep(v, o) ==
    /\ vec' = v
    /\ out' = o
    /\ UNCHANGED <<amap, bmap, str, vec2, str2>>
    /\ UNCHANGED ptrVars

Vector_pushBack(value) ==
    /\ Len(vec) < MaxLen
    /\ VecStep(Append(vec, value), Returned("pushBack", value, 0))

\* pop_back() of an empty std::vector is undefined: the program does not do it
Vector_popBack ==
    /\ Len(vec) > 0
    /\ VecStep(SubSeq(vec, 1, Len(vec) - 1), Returned("popBack", 0, 0))

Vector_clear ==
    VecStep(<<>>, Returned("clear", 0, 0))

Vector_getSize ==
    VecStep(vec, Returned("getSize", 0, Len(vec)))

Vector_countIf(pred) ==
    VecStep(vec, Returned("countIf", pred, countIf(vec, pred)))

Vector_filter(pred) ==
    VecStep(vec, Returned("filter", pred, filter(vec, pred)))

Vector_map(func) ==
    VecStep(vec, Returned("map", func, map(vec, func)))

\* it != data.end() ? std::distance(data.begin(), it) : static_cast<size_type>(-1)
Vector_findFirstIndex(value) ==
    LET it == std_find(vec, 1, value)
    IN  VecStep(vec, Returned("findFirstIndex", value,
                              IF it # Len(vec) + 1 THEN it - 1 ELSE size_type(-1)))

Vector_findFirstIndexIf(pred) ==
    LET it == find_if(vec, 1, pred)
    IN  VecStep(vec, Returned("findFirstIndexIf", pred,
                              IF it # Len(vec) + 1 THEN it - 1 ELSE size_type(-1)))

InitVec ==
    /\ PtrIdle
    /\ ContIdle

NextVec ==
    \/ \E value \in Elems : Vector_findFirstIndex(value)
    \/ \E pred \in Preds : Vector_findFirstIndexIf(pred)
    \/ \E value \in Elems : Vector_pushBack(value)
    \/ Vector_popBack
    \/ Vector_clear
    \/ Vector_getSize
    \/ \E pred \in Preds : Vector_countIf(pred)
    \/ \E pred \in Preds : Vector_filter(pred)
    \/ \E func \in Funcs : Vector_map(func)

SpecVec == InitVec /\ [][NextVec]_vars

(***************************************************************************)
(* Properties of Vector.                                                   *)
(***************************************************************************)
\* the positions of v whose element satisfies p
Satisfying(v, p) == {i \in DOMAIN v : p[v[i]]}

\* r is v restricted to the positions in I, in the order of v
IsRestriction(r, v, I) ==
    /\ Len(r) = Cardinality(I)
    /\ \A n \in 1..Len(r) :
          \E i \in I : /\ Cardinality({j \in I : j <= i}) = n
                       /\ r[n] = v[i]

\* C8: v.filter(p) is v restricted to the elements that satisfy p, in their
\* order in v and as often as they occur in v; every element of the result
\* satisfies p, its size is v.countIf(p), and countIf counts the positions
\* of v whose element satisfies p.
C8_FilterKeepsSatisfying ==
    /\ out.op = "filter" =>
          /\ IsRestriction(out.ret, vec, Satisfying(vec, out.arg))
          /\ out.ret = SelectSeq(vec, LAMBDA x : out.arg[x])
          /\ \A n \in DOMAIN out.ret : out.arg[out.ret[n]]
          /\ Len(out.ret) = countIf(vec, out.arg)
    /\ out.op = "countIf" =>
          out.ret = Cardinality(Satisfying(vec, out.arg))

\* a filter that dropped the element between two different ones it kept
C8_Witness ==
    /\ out.op = "filter"
    /\ Len(vec) = 3
    /\ out.arg[vec[1]] /\ ~out.arg[vec[2]] /\ out.arg[vec[3]]
    /\ vec[1] # vec[3]
    /\ out.ret = <<vec[1], vec[3]>>

\* C9: v.map(f) is as long as v and its i-th element is f(v[i]), for the
\* function that keeps the element type and for the one that changes it,
\* and for the empty v.
C9_MapAppliesPointwise ==
    out.op = "map" =>
       /\ Len(out.ret) = Len(vec)
       /\ \A i \in DOMAIN vec : out.ret[i] = Apply(out.arg, vec[i])
       /\ vec = <<>> => out.ret = <<>>

\* a map that turned the integers of a sequence into strings
C9_Witness ==
    /\ out.op = "map"
    /\ out.arg = "toString"
    /\ vec = <<2, 1, 2>>
    /\ out.ret = <<"Number 2", "Number 1", "Number 2">>


\* the greatest value of size_type
MaxIndex == (2 ^ SizeBits) - 1

\* the indexes (from 0) of the elements of vec the search of the last
\* operation matches
Matching ==
    IF out.op = "findFirstIndex" THEN {i \in 0..(Len(vec) - 1) : vec[i + 1] = out.arg}
    ELSE {i \in 0..(Len(vec) - 1) : out.arg[vec[i + 1]]}

\* C22: findFirstIndex(value) and findFirstIndexIf(pred) return the least
\* index whose element matches, which is below getSize(), and return the
\* greatest value of size_type exactly when no element matches, as for the
\* empty sequence.
C22_FirstIndexOrSentinel ==
    out.op \in {"findFirstIndex", "findFirstIndexIf"} =>
       /\ Matching # {} =>
             /\ out.ret \in Matching
             /\ out.ret < Len(vec)
             /\ \A j \in Matching : out.ret <= j
       /\ out.ret = MaxIndex <=> Matching = {}
       /\ vec = <<>> => out.ret = MaxIndex

\* findFirstIndexIf on a sequence whose second and third element satisfy
\* the predicate and whose first does not
C22_Witness ==
    /\ out.op = "findFirstIndexIf"
    /\ Len(vec) = 3
    /\ ~out.arg[vec[1]] /\ out.arg[vec[2]] /\ out.arg[vec[3]]
    /\ out.ret = 1


(***************************************************************************)
(* Map<Key, Value, Compare>: a wrapper of std::map (Map::data).  A         *)
(* std::map holds one value per key and is iterated in the key order of    *)
(* Compare: it is a function on its set of keys.  The set operations are   *)
(* modelled with Compare = std::less<Key>, visiting from the least key     *)
(* upwards; the snapshot operations take the Compare of the Map.           *)
(***************************************************************************)
MaxKey == 3

Keys == 1..MaxKey
MapVals == {"two", "TWO"}

\* the pairs (std::map::value_type) a program inserts
Pairs == Keys \X MapVals

\* the least key of a non-empty set of keys: where iteration goes first
Begin(ks) == CHOOSE k \in ks : \A j \in ks : k <= j

contains(data, key) == key \in DOMAIN data

\* std::map::insert: does nothing when the key is present
insert(data, value) ==
    IF value[1] \in DOMAIN data THEN data
    ELSE [k \in DOMAIN data \cup {value[1]} |->
             IF k = value[1] THEN value[2] ELSE data[k]]

assign_keepsPresent(data, value) == insert(data, value)

\* std::map::operator[] followed by an assignment: inserts or overwrites
assign(data, value) ==
    [k \in DOMAIN data \cup {value[1]} |->
        IF k = value[1] THEN value[2] ELSE data[k]]

erase(data, key) == [k \in DOMAIN data \ {key} |-> data[k]]

\* for (const auto &pair : other.data) if (!result.contains(...)) result.insert(pair)
RECURSIVE merge_loop(_, _, _)
merge_loop(result, other, rest) ==
    IF rest = {} THEN result
    ELSE LET first == Begin(rest)
             pair == <<first, other[first]>>
         IN  merge_loop(IF ~contains(result, pair[1]) THEN insert(result, pair)
                                                       ELSE result,
                        other, rest \ {first})

merge_otherWins(this, other) ==
    [k \in DOMAIN this \cup DOMAIN other |->
        IF k \in DOMAIN other THEN other[k] ELSE this[k]]

\* Map result = *this; ...; return result
merge(this, other) == merge_loop(this, other, DOMAIN other)

\* Map result; for (pair : data) if (!other.contains(pair.first)) result.insert(pair)
RECURSIVE difference_loop(_, _, _, _)
difference_loop(result, this, other, rest) ==
    IF rest = {} THEN result
    ELSE LET first == Begin(rest)
             pair == <<first, this[first]>>
         IN  difference_loop(IF ~contains(other, pair[1]) THEN insert(result, pair)
                                                          ELSE result,
                             this, other, rest \ {first})

difference_ofEntries(this, other) ==
    [k \in {j \in DOMAIN this : j \notin DOMAIN other \/ other[j] # this[j]} |-> this[k]]

difference(this, other) == difference_loop(<<>>, this, other, DOMAIN this)

\* Map result; for (pair : data) if (other.contains(pair.first)) result.insert(pair)
RECURSIVE intersection_loop(_, _, _, _)
intersection_loop(result, this, other, rest) ==
    IF rest = {} THEN result
    ELSE LET first == Begin(rest)
             pair == <<first, this[first]>>
         IN  intersection_loop(IF contains(other, pair[1]) THEN insert(result, pair)
                                                           ELSE result,
                               this, other, rest \ {first})

intersection_otherValues(this, other) ==
    [k \in DOMAIN this \cap DOMAIN other |-> other[k]]

intersection(this, other) == intersection_loop(<<>>, this, other, DOMAIN this)

\* the functions handed to mapValues (one changes the value type) and the
\* predicates handed to filterEntries
ValueFuncs == {"length", "toUpper"}
EntryPreds == {"oddKey", "upperValue"}

ApplyValue(func, value) == IF func = "length" THEN Len(value) ELSE "TWO"

Holds(pred, key, value) == IF pred = "oddKey" THEN key % 2 = 1 ELSE value = "TWO"

\* for (pair : data) result.insert({pair.first, func(pair.second)})
RECURSIVE mapValues_loop(_, _, _, _)
mapValues_loop(result, this, func, rest) ==
    IF rest = {} THEN result
    ELSE LET first == Begin(rest)
         IN  mapValues_loop(insert(result, <<first, ApplyValue(func, this[first])>>),
                            this, func, rest \ {first})

mapValues(this, func) == mapValues_loop(<<>>, this, func, DOMAIN this)

\* for (pair : data) if (pred(pair.first, pair.second)) result.insert(pair)
RECURSIVE filterEntries_loop(_, _, _, _)
filterEntries_loop(result, this, pred, rest) ==
    IF rest = {} THEN result
    ELSE LET first == Begin(rest)
             pair == <<first, this[first]>>
         IN  filterEntries_loop(IF Holds(pred, pair[1], pair[2]) THEN insert(result, pair)
                                                                 ELSE result,
                                this, pred, rest \ {first})

filterEntries(this, pred) == filterEntries_loop(<<>>, this, pred, DOMAIN this)

\* the Compare a Map is instantiated with: std::less<Key> (the default) or
\* std::greater<Key>
Compares == {"less", "greater"}

\* comp(a, b) of the Compare object of std::map
key_compare(comp, a, b) == IF comp = "less" THEN a < b ELSE a > b

\* the order in which a range-for visits a std::map: from the key no other
\* key precedes under comp, as a sequence of pairs
iterate_ascending(data, comp, rest) ==
    LET n == Cardinality(rest)
        ks == CHOOSE s \in [1..n -> rest] : \A i, j \in 1..n : i < j => s[i] < s[j]
    IN  [i \in 1..n |-> <<ks[i], data[ks[i]]>>]

RECURSIVE iterate(_, _, _)
iterate(data, comp, rest) ==
    IF rest = {} THEN <<>>
    ELSE LET first == CHOOSE k \in rest : \A j \in rest \ {k} : key_compare(comp, k, j)
         IN  <<(<<first, data[first]>>)>> \o iterate(data, comp, rest \ {first})

\* for (const auto &pair : data) keys.pushBack(pair.first)
getKeys(data, comp) ==
    LET pairs == iterate(data, comp, DOMAIN data)
    IN  [i \in 1..Len(pairs) |-> pairs[i][1]]

\* for (const auto &pair : data) values.pushBack(pair.second)
getValues(data, comp) ==
    LET pairs == iterate(data, comp, DOMAIN data)
    IN  [i \in 1..Len(pairs) |-> pairs[i][2]]

\* for (const auto &pair : data) entries.pushBack(pair)
getEntries(data, comp) == iterate(data, comp, DOMAIN data)

\* the Map a step is applied to: the receiver a or the argument b
Maps == {"a", "b"}
DataOf(m) == IF m = "a" THEN amap ELSE bmap

MapStep(m, data, o) ==
    /\ amap' = IF m = "a" THEN data ELSE amap
    /\ bmap' = IF m = "b" THEN data ELSE bmap
    /\ out' = o
    /\ UNCHANGED <<vec, str, vec2, str2>>
    /\ UNCHANGED ptrVars

Map_insert(m, value) ==
    MapStep(m, insert(DataOf(m), value),
            Returned("insert", m, ~contains(DataOf(m), value[1])))

Map_assign(m, value) ==
    MapStep(m, assign(DataOf(m), value), Returned("operator[]", m, value[2]))

Map_erase(m, key) ==
    MapStep(m, erase(DataOf(m), key),
            Returned("erase", m, IF contains(DataOf(m), key) THEN 1 ELSE 0))

Map_contains(m, key) ==
    MapStep(m, DataOf(m), Returned("contains", m, contains(DataOf(m), key)))

\* m.merge(o): m and o may be the same Map
Map_merge(m, o) ==
    MapStep(m, DataOf(m), Returned("merge", <<m, o>>, merge(DataOf(m), DataOf(o))))

Map_difference_inPlace(m, o) ==
    MapStep(m, difference(DataOf(m), DataOf(o)),
            Returned("difference", <<m, o>>, difference(DataOf(m), DataOf(o))))

Map_difference(m, o) ==
    MapStep(m, DataOf(m),
            Returned("difference", <<m, o>>, difference(DataOf(m), DataOf(o))))

Map_intersection(m, o) ==
    MapStep(m, DataOf(m),
            Returned("intersection", <<m, o>>, intersection(DataOf(m), DataOf(o))))

Map_mapValues(m, func) ==
    MapStep(m, DataOf(m), Returned("mapValues", <<m, func>>, mapValues(DataOf(m), func)))

Map_filterEntries(m, pred) ==
    MapStep(m, DataOf(m),
            Returned("filterEntries", <<m, pred>>, filterEntries(DataOf(m), pred)))

\* m.getKeys() of a Map<Key, Value, comp>
Map_getKeys(m, comp) ==
    MapStep(m, DataOf(m), Returned("getKeys", <<m, comp>>, getKeys(DataOf(m), comp)))

Map_getValues(m, comp) ==
    MapStep(m, DataOf(m), Returned("getValues", <<m, comp>>, getValues(DataOf(m), comp)))

Map_getEntries(m, comp) ==
    MapStep(m, DataOf(m), Returned("getEntries", <<m, comp>>, getEntries(DataOf(m), comp)))

InitMap ==
    /\ PtrIdle
    /\ ContIdle

NextMap ==
    \/ \E m \in Maps, value \in Pairs : Map_insert(m, value)
    \/ \E m \in Maps, value \in Pairs : Map_assign(m, value)
    \/ \E m \in Maps, key \in Keys : Map_erase(m, key)
    \/ \E m \in Maps, key \in Keys : Map_contains(m, key)
    \/ \E m, o \in Maps : Map_merge(m, o)
    \/ \E m, o \in Maps : Map_difference(m, o)
    \/ \E m, o \in Maps : Map_intersection(m, o)
    \/ \E m \in Maps, func \in ValueFuncs : Map_mapValues(m, func)
    \/ \E m \in Maps, pred \in EntryPreds : Map_filterEntries(m, pred)

\* a program that fills a Map and takes snapshots of it
NextSnapshot ==
    \/ \E m \in Maps, value \in Pairs : Map_assign(m, value)
    \/ \E m \in Maps, key \in Keys : Map_erase(m, key)
    \/ \E m \in Maps, comp \in Compares : Map_getKeys(m, comp)
    \/ \E m \in Maps, comp \in Compares : Map_getValues(m, comp)
    \/ \E m \in Maps, comp \in Compares : Map_getEntries(m, comp)

SpecMap == InitMap /\ [][NextMap]_vars

SpecSnapshot == InitMap /\ [][NextSnapshot]_vars

(***************************************************************************)
(* Properties of Map.                                                      *)
(***************************************************************************)
\* the receiver and the argument of the set operation executed last
This == DataOf(out.arg[1])
Other == DataOf(out.arg[2])

\* C10: the keys of a.merge(b) are the keys of a together with the keys of
\* b; a key of a has the value it has in a, whatever b holds for it, and a
\* key of b alone has the value it has in b.
C10_MergeReceiverWins ==
    out.op = "merge" =>
       /\ DOMAIN out.ret = DOMAIN This \cup DOMAIN Other
       /\ Cardinality(DOMAIN out.ret) = Cardinality(DOMAIN This \cup DOMAIN Other)
       /\ \A k \in DOMAIN This : out.ret[k] = This[k]
       /\ \A k \in DOMAIN Other \ DOMAIN This : out.ret[k] = Other[k]

\* a merge of two maps that disagree on a key they share, each with a key
\* of its own
C10_Witness ==
    /\ out.op = "merge"
    /\ out.arg = <<"a", "b">>
    /\ \E k \in DOMAIN amap \cap DOMAIN bmap : amap[k] # bmap[k]
    /\ DOMAIN amap \ DOMAIN bmap # {}
    /\ DOMAIN bmap \ DOMAIN amap # {}
    /\ Cardinality(DOMAIN out.ret) = 3

\* C11: the keys of a.intersection(b) are the keys a and b share, each with
\* the value it has in a.
C11_IntersectionOfKeys ==
    out.op = "intersection" =>
       /\ DOMAIN out.ret = DOMAIN This \cap DOMAIN Other
       /\ \A k \in DOMAIN out.ret : out.ret[k] = This[k]

\* an intersection of two maps that share a key on whose value they disagree,
\* each with a key of its own
C11_Witness ==
    /\ out.op = "intersection"
    /\ out.arg = <<"a", "b">>
    /\ \E k \in DOMAIN out.ret : amap[k] # bmap[k] /\ out.ret[k] = amap[k]
    /\ DOMAIN amap \ DOMAIN bmap # {}
    /\ DOMAIN bmap \ DOMAIN amap # {}

\* C12: a.difference(b) holds the entries of a whose key b does not have,
\* with the values of a; its keys and the keys of a.intersection(b) are
\* disjoint and together they are the keys of a.
C12_DifferencePartitions ==
    out.op = "difference" =>
       /\ DOMAIN out.ret = DOMAIN This \ DOMAIN Other
       /\ \A k \in DOMAIN out.ret : out.ret[k] = This[k]
       /\ DOMAIN out.ret \cap DOMAIN intersection(This, Other) = {}
       /\ DOMAIN out.ret \cup DOMAIN intersection(This, Other) = DOMAIN This

\* a difference that kept one key of a and dropped two: one on whose value
\* b agrees, one on whose value b disagrees
C12_Witness ==
    /\ out.op = "difference"
    /\ out.arg = <<"a", "b">>
    /\ Cardinality(DOMAIN out.ret) = 1
    /\ \E k \in DOMAIN amap \cap DOMAIN bmap : amap[k] = bmap[k]
    /\ \E k \in DOMAIN amap \cap DOMAIN bmap : amap[k] # bmap[k]

\* the operations that build a map from the receiver
DerivedOps == {"merge", "difference", "intersection", "mapValues", "filterEntries"}

\* C13: a step of merge, difference, intersection, mapValues or
\* filterEntries leaves the receiver and the argument as they were, also
\* when the two are the same Map; what it computes is the map it returns.
C13_OperandsUnchanged ==
    [][out'.op \in DerivedOps => amap' = amap /\ bmap' = bmap]_vars

\* a.difference(a) gave the empty map and a still has its entries
C13_Witness ==
    /\ out.op = "difference"
    /\ out.arg = <<"a", "a">>
    /\ out.ret = <<>>
    /\ Cardinality(DOMAIN amap) = 2


\* the snapshot operations and the Compare of the Map of the last one
SnapshotOps == {"getKeys", "getValues", "getEntries"}
Comp == out.arg[2]

\* a precedes b in the order of the comparator
Precedes(comp, a, b) == (comp = "less" /\ a < b) \/ (comp = "greater" /\ b < a)

\* the keys of the receiver, each once, every key before the keys it precedes
KeysInOrder(s) ==
    /\ Len(s) = Cardinality(DOMAIN This)
    /\ {s[i] : i \in DOMAIN s} = DOMAIN This
    /\ \A i, j \in DOMAIN s : i < j => Precedes(Comp, s[i], s[j])

\* C21: getKeys(), getValues() and getEntries() return as many elements as
\* the map has entries; the keys come in the order of the map's comparator
\* (ascending for std::less, descending for std::greater), the i-th value is
\* the value of the i-th key and the i-th entry is the pair of the two; the
\* step leaves the map as it was.
C21_SnapshotsInKeyOrder ==
    /\ [](out.op \in SnapshotOps =>
            /\ Len(out.ret) = Cardinality(DOMAIN This)
            /\ out.op = "getKeys" => KeysInOrder(out.ret)
            /\ out.op = "getValues" =>
                  \E s \in [1..Len(out.ret) -> Keys] :
                     KeysInOrder(s) /\ \A i \in DOMAIN s : out.ret[i] = This[s[i]]
            /\ out.op = "getEntries" =>
                  /\ KeysInOrder([i \in 1..Len(out.ret) |-> out.ret[i][1]])
                  /\ \A i \in 1..Len(out.ret) : out.ret[i][2] = This[out.ret[i][1]])
    /\ [][out'.op \in SnapshotOps => amap' = amap /\ bmap' = bmap]_vars

\* getEntries() of a Map with std::greater that holds three keys, not all
\* with the same value: the entries come from the greatest key down
C21_Witness ==
    /\ out.op = "getEntries"
    /\ out.arg = <<"a", "greater">>
    /\ Len(out.ret) = 3
    /\ out.ret[1][1] = 3 /\ out.ret[3][1] = 1
    /\ out.ret[1][2] # out.ret[3][2]

(***************************************************************************)
(* String: a wrapper of std::string (String::data).  A text is a sequence  *)
(* of characters; positions count from 0 as in the code, and npos is what  *)
(* std::string::find gives when there is no occurrence.                    *)
(***************************************************************************)
MaxText == 4

Chars == {"a", "=", ";", " "}
Tokens == {<<>>, <<";">>, <<"=">>, <<" ">>, <<"a", "a">>}

\* the characters of a text of words: letters, the space and the tab
WordChars == {"a", "b", " ", "\t"}

npos == -1

\* what the machine can hold: a longer result than any call on a text of
\* MaxText characters that returns; an allocation beyond it fails
MemSegs == MaxText + 1
MemChars == 2 * MaxText

isspace(c) == c \in {" ", "\t"}

\* std::string::find(str, pos): the first occurrence at or after pos
find(data, s, pos) ==
    LET hits == {i \in pos..(Len(data) - Len(s)) : SubSeq(data, i + 1, i + Len(s)) = s}
    IN  IF hits = {} THEN npos ELSE CHOOSE i \in hits : \A j \in hits : i <= j

\* std::string::substr(pos, len): at most len characters from pos on
substr(data, pos, len) ==
    SubSeq(data, pos + 1, IF pos + len > Len(data) THEN Len(data) ELSE pos + len)

\* result.erase(result.begin(), find_if(begin, end, !isspace))
RECURSIVE ltrim(_)
ltrim(data) ==
    IF data # <<>> /\ isspace(Head(data)) THEN ltrim(Tail(data)) ELSE data

\* result.erase(find_if(rbegin, rend, !isspace).base(), result.end())
RECURSIVE rtrim(_)
rtrim(data) ==
    IF data # <<>> /\ isspace(data[Len(data)])
    THEN rtrim(SubSeq(data, 1, Len(data) - 1)) ELSE data

trim(data) == rtrim(ltrim(data))

\* result.pushBack(segment): fails when the vector cannot grow
pushBack(result, segment) ==
    IF Len(result) >= MemSegs THEN Ended("pushBack", segment, result, "std::bad_alloc")
    ELSE Returned("pushBack", segment, Append(result, segment))

\* the loop of split / splitByToken and the push of the last segment
RECURSIVE split_loop(_, _, _, _, _)
split_loop(data, token, applyTrim, start, result) ==
    LET end == find(data, token, start)
        segment == IF end # npos THEN substr(data, start, end - start)
                                 ELSE substr(data, start, Len(data))
        pushed == pushBack(result, IF applyTrim THEN trim(segment) ELSE segment)
    IN  IF pushed.end # "return" \/ end = npos THEN pushed
        ELSE split_loop(data, token, applyTrim, end + Len(token), pushed.ret)

splitByToken(data, token, applyTrim) == split_loop(data, token, applyTrim, 0, <<>>)

split_skipsEmpty(data, delimiter) ==
    LET call == split_loop(data, delimiter, FALSE, 0, <<>>)
    IN  [call EXCEPT !.ret = SelectSeq(call.ret, LAMBDA segment : segment # <<>>)]

split(data, delimiter) == split_loop(data, delimiter, FALSE, 0, <<>>)

\* std::string::replace(pos, len, str)
string_replace(data, pos, len, s) ==
    SubSeq(data, 1, pos) \o s \o SubSeq(data, pos + len + 1, Len(data))

\* the loop of replace(oldStr, newStr): it ends when find gives npos, with an
\* exception when the text cannot grow, and never when an iteration leaves
\* data and pos as they were
RECURSIVE replace_loop(_, _, _, _)
replace_loop(data, oldStr, newStr, pos) ==
    LET found == find(data, oldStr, pos)
        grown == string_replace(data, found, Len(oldStr), newStr)
    IN  IF found = npos THEN Returned("replace", oldStr, data)
        ELSE IF Len(grown) > MemChars THEN Ended("replace", oldStr, data, "std::bad_alloc")
        ELSE IF grown = data /\ found + Len(newStr) = pos
             THEN Ended("replace", oldStr, data, "never")
        ELSE replace_loop(grown, oldStr, newStr, found + Len(newStr))

replace_firstOnly(data, oldStr, newStr) ==
    LET found == find(data, oldStr, 0)
    IN  Returned("replace", oldStr,
                 IF found = npos THEN data
                 ELSE string_replace(data, found, Len(oldStr), newStr))

replace(data, oldStr, newStr) == replace_loop(data, oldStr, newStr, 0)

RECURSIVE toMap_loop_dropsUnsplit(_, _, _, _)
toMap_loop_dropsUnsplit(result, pairs, i, splitToken) ==
    IF i > Len(pairs) THEN result
    ELSE LET pair == pairs[i]
             splitPos == find(pair, splitToken, 0)
             key == trim(substr(pair, 0, splitPos))
             value == trim(substr(pair, splitPos + Len(splitToken), Len(pair)))
         IN  toMap_loop_dropsUnsplit(IF splitToken = <<>> \/ splitPos = npos THEN result
                                     ELSE assign(result, <<key, value>>),
                                     pairs, i + 1, splitToken)

\* the body of the loop of toMap over the (trimmed) segments
RECURSIVE toMap_loop(_, _, _, _)
toMap_loop(result, pairs, i, splitToken) ==
    IF i > Len(pairs) THEN result
    ELSE LET pair == pairs[i]
             segment == trim(pair)
             splitPos == find(pair, splitToken, 0)
             key == trim(substr(pair, 0, splitPos))
             value == trim(substr(pair, splitPos + Len(splitToken), Len(pair)))
         IN  toMap_loop(IF splitToken = <<>> \/ splitPos = npos
                        THEN IF segment # <<>> THEN assign(result, <<segment, segment>>)
                                               ELSE result
                        ELSE assign(result, <<key, value>>),
                        pairs, i + 1, splitToken)

toMap_emptySeparatorSplitsNothing(data, splitToken, separatorToken) ==
    toMap_loop(<<>>, IF separatorToken = <<>> THEN <<trim(data)>>
                     ELSE splitByToken(data, separatorToken, TRUE).ret,
               1, splitToken)

toMap(data, splitToken, separatorToken) ==
    IF separatorToken = <<>> THEN <<>>
    ELSE toMap_loop(<<>>, splitByToken(data, separatorToken, TRUE).ret, 1, splitToken)

\* the loop of getWordFrequencies over the words
wordFreq_loop_countsOnce(wordFreq, words, i) ==
    [w \in {trim(words[j]) : j \in i..Len(words)} \ {<<>>} |-> 1]

RECURSIVE wordFreq_loop(_, _, _)
wordFreq_loop(wordFreq, words, i) ==
    IF i > Len(words) THEN wordFreq
    ELSE LET cleanWord == trim(words[i])
         IN  wordFreq_loop(IF cleanWord = <<>> THEN wordFreq
                           ELSE IF contains(wordFreq, cleanWord)
                                THEN assign(wordFreq, <<cleanWord, wordFreq[cleanWord] + 1>>)
                                ELSE assign(wordFreq, <<cleanWord, 1>>),
                           words, i + 1)

getWordFrequencies(data) == wordFreq_loop(<<>>, split(data, <<" ">>).ret, 1)

\* a call that never returns leaves nothing after it
\* the value of a char as an integer (ASCII)
code(c) ==
    CASE c = "a" -> 97
      [] c = "=" -> 61
      [] c = ";" -> 59
      [] c = " " -> 32
      [] c = "\t" -> 9

\* static_cast<char>(n): the char of a code; a char the texts of the model
\* are not built from is written \n
char(n) ==
    IF \E c \in Chars : code(c) = n THEN CHOOSE c \in Chars : code(c) = n
    ELSE "\\" \o ToString(n)

\* String(char c, size_t count = 1) : data(count, c)
String(c, count) == [i \in 1..count |-> c]

\* String(n, ch) with an int n and a char ch: the one constructor of two
\* parameters takes them as (char c, size_t count), n converted to char and
\* ch to size_t
String_ofIntAndChar(n, ch) == String(char(n), size_type(code(ch)))

\* for (char c : data) if (charCount.contains(c)) charCount[c] += 1; else charCount[c] = 1
countCharacters_loop_countsOnce(charCount, data, i) ==
    [c \in {data[j] : j \in i..Len(data)} |-> 1]

RECURSIVE countCharacters_loop(_, _, _)
countCharacters_loop(charCount, data, i) ==
    IF i > Len(data) THEN charCount
    ELSE LET c == data[i]
         IN  countCharacters_loop(IF contains(charCount, c)
                                  THEN assign(charCount, <<c, charCount[c] + 1>>)
                                  ELSE assign(charCount, <<c, 1>>),
                                  data, i + 1)

Running == IF out.op = "none" THEN TRUE ELSE out.end # "never"

StrStep(s, o) ==
    /\ Running
    /\ str' = s
    /\ out' = o
    /\ UNCHANGED <<vec, amap, bmap, vec2, str2>>
    /\ UNCHANGED ptrVars

String_append(c) ==
    /\ Len(str) < MaxText
    /\ StrStep(Append(str, c), Returned("append", c, 0))

String_clear ==
    StrStep(<<>>, Returned("clear", 0, 0))

String_toMap(splitToken, separatorToken) ==
    /\ Len(str) <= MaxText
    /\ StrStep(str, Returned("toMap", <<splitToken, separatorToken>>,
                             toMap(str, splitToken, separatorToken)))

String_split(delimiter) ==
    /\ Len(str) <= MaxText
    /\ LET call == split(str, delimiter)
       IN  StrStep(str, Ended("split", delimiter, call.ret, call.end))

String_splitByToken(token, applyTrim) ==
    /\ Len(str) <= MaxText
    /\ LET call == splitByToken(str, token, applyTrim)
       IN  StrStep(str, Ended("splitByToken", <<token, applyTrim>>, call.ret, call.end))

String_replace(oldStr, newStr) ==
    /\ Len(str) <= MaxText
    /\ LET call == replace(str, oldStr, newStr)
       IN  StrStep(call.ret, Ended("replace", <<oldStr, newStr>>, 0, call.end))

String_getWordFrequencies ==
    /\ Len(str) <= MaxText
    /\ StrStep(str, Returned("getWordFrequencies", 0, getWordFrequencies(str)))

\* cpp_ex::String str(n, ch), as the tests construct a text of n copies of ch
String_construct(n, ch) ==
    StrStep(String_ofIntAndChar(n, ch), Returned("String", <<n, ch>>, 0))

\* for (char c : data) result.pushBack(String(1, c))
String_toStringVector ==
    /\ Len(str) <= MaxText
    /\ StrStep(str, Returned("toStringVector", 0,
                             [i \in 1..Len(str) |-> String_ofIntAndChar(1, str[i])]))

\* for (char c : data) result.pushBack(c)
String_toCharVector ==
    /\ Len(str) <= MaxText
    /\ StrStep(str, Returned("toCharVector", 0, [i \in 1..Len(str) |-> str[i]]))

\* return index < data.length() ? data[index] : '\0'
String_charAt(index) ==
    /\ Len(str) <= MaxText
    /\ StrStep(str, Returned("charAt", index,
                             IF index < Len(str) THEN str[index + 1] ELSE char(0)))

String_setCharAt_atNext(index, c) ==
    /\ Len(str) <= MaxText
    /\ StrStep(IF index + 1 < Len(str) THEN [str EXCEPT ![index + 2] = c] ELSE str,
               Returned("setCharAt", <<index, c>>, 0))

\* if (index < data.length()) data[index] = c
String_setCharAt(index, c) ==
    /\ Len(str) <= MaxText
    /\ StrStep(IF index < Len(str) THEN [str EXCEPT ![index + 1] = c] ELSE str,
               Returned("setCharAt", <<index, c>>, 0))

String_countCharacters ==
    /\ Len(str) <= MaxText
    /\ StrStep(str, Returned("countCharacters", 0, countCharacters_loop(<<>>, str, 1)))

InitStr ==
    /\ PtrIdle
    /\ ContIdle

\* a program that builds a text and splits it, replaces in it and counts its words
NextStr ==
    \/ \E c \in Chars : String_append(c)
    \/ String_clear
    \/ \E delimiter \in Tokens : String_split(delimiter)
    \/ \E token \in Tokens, applyTrim \in BOOLEAN : String_splitByToken(token, applyTrim)
    \/ \E oldStr, newStr \in Tokens \cup {<<"a">>} : String_replace(oldStr, newStr)
    \/ String_getWordFrequencies

\* a program that builds a text and converts it to a Map
NextToMap ==
    \/ \E c \in Chars : String_append(c)
    \/ String_clear
    \/ \E splitToken, separatorToken \in Tokens : String_toMap(splitToken, separatorToken)

\* the indexes a program passes: those of a text, the one past its end and
\* the greatest size_t (what -1 converts to)
Indexes == 0..MaxText \cup {size_type(-1)}

\* a program that builds a text and works on its characters
NextChars ==
    \/ \E c \in Chars : String_append(c)
    \/ String_clear
    \/ \E n \in 1..MaxText, ch \in Chars : String_construct(n, ch)
    \/ String_toStringVector
    \/ String_toCharVector
    \/ String_countCharacters
    \/ \E index \in Indexes : String_charAt(index)
    \/ \E index \in Indexes, c \in Chars : String_setCharAt(index, c)

\* a program that builds a text of words and counts them
NextWords ==
    \/ \E c \in WordChars : String_append(c)
    \/ String_clear
    \/ String_getWordFrequencies

SpecStr == InitStr /\ [][NextStr]_vars

SpecToMap == InitStr /\ [][NextToMap]_vars

SpecChars == InitStr /\ [][NextChars]_vars

SpecWords == InitStr /\ [][NextWords]_vars

(***************************************************************************)
(* Properties of String::toMap.  In a state where toMap was executed last, *)
(* SplitToken and SeparatorToken are its arguments and Segments the pieces *)
(* of the text between the occurrences of the separator.                   *)
(***************************************************************************)
SplitToken == out.arg[1]
SeparatorToken == out.arg[2]
Segments == split(str, SeparatorToken).ret

\* the text before and the text after position p of a token of length n
Before(seg, p) == SubSeq(seg, 1, p)
After(seg, p, n) == SubSeq(seg, p + n + 1, Len(seg))

\* the segment as the code looks at it: trimmed first
Trimmed(i) == trim(Segments[i])
HasSplit(i) == SplitToken # <<>> /\ find(Trimmed(i), SplitToken, 0) # npos

\* the entry segment i gives, if it gives one
Gives(i) == HasSplit(i) \/ Trimmed(i) # <<>>
SegKey(i) ==
    IF HasSplit(i) THEN trim(Before(Trimmed(i), find(Trimmed(i), SplitToken, 0)))
    ELSE Trimmed(i)
SegVal(i) ==
    IF HasSplit(i)
    THEN trim(After(Trimmed(i), find(Trimmed(i), SplitToken, 0), Len(SplitToken)))
    ELSE Trimmed(i)

\* the last segment that gives the key k
LastGiving(k) ==
    CHOOSE i \in DOMAIN Segments :
        /\ Gives(i) /\ SegKey(i) = k
        /\ \A j \in DOMAIN Segments : Gives(j) /\ SegKey(j) = k => j <= i

\* the key and value of segment i read without trimming the segment first
RawHasSplit(i) == SplitToken # <<>> /\ find(Segments[i], SplitToken, 0) # npos
RawKey(i) ==
    IF RawHasSplit(i) THEN trim(Before(Segments[i], find(Segments[i], SplitToken, 0)))
    ELSE trim(Segments[i])
RawVal(i) ==
    IF RawHasSplit(i)
    THEN trim(After(Segments[i], find(Segments[i], SplitToken, 0), Len(SplitToken)))
    ELSE trim(Segments[i])

\* C14 as stated: with both tokens non-empty, every segment that contains
\* splitToken maps the trimmed text before the first splitToken to the
\* trimmed text after it, unless a later segment gives the same key.
C14_EverySegmentWithSplit ==
    (out.op = "toMap" /\ SeparatorToken # <<>> /\ SplitToken # <<>>) =>
       \A i \in DOMAIN Segments :
          RawHasSplit(i) =>
             /\ RawKey(i) \in DOMAIN out.ret
             /\ \/ out.ret[RawKey(i)] = RawVal(i)
                \/ \E j \in DOMAIN Segments : j > i /\ RawKey(j) = RawKey(i)

\* C14, amended: with both tokens non-empty, every segment whose trimmed
\* text contains splitToken maps the trimmed text before the first
\* splitToken of the trimmed segment to the trimmed text after it; of the
\* segments that give the same key the last one's value stands.
C14_EveryTrimmedSegmentWithSplit ==
    (out.op = "toMap" /\ SeparatorToken # <<>> /\ SplitToken # <<>>) =>
       \A i \in DOMAIN Segments :
          HasSplit(i) =>
             /\ SegKey(i) \in DOMAIN out.ret
             /\ out.ret[SegKey(i)] = SegVal(LastGiving(SegKey(i)))
             /\ LastGiving(SegKey(i)) = i => out.ret[SegKey(i)] = SegVal(i)

\* two segments gave the empty key and the value of the second one stands
C14_Witness ==
    /\ out.op = "toMap"
    /\ out.arg = << <<"=">>, <<";">> >>
    /\ str = <<"=", ";", "=", "a">>
    /\ out.ret = [k \in {<<>>} |-> <<"a">>]

\* C15 as stated: with a non-empty separator, every segment in which
\* splitToken is empty or does not occur is an entry whose key and value
\* are the trimmed segment.
C15_NoSegmentDropped ==
    (out.op = "toMap" /\ SeparatorToken # <<>>) =>
       \A i \in DOMAIN Segments :
          ~RawHasSplit(i) =>
             /\ trim(Segments[i]) \in DOMAIN out.ret
             /\ out.ret[trim(Segments[i])] = trim(Segments[i])

\* C15, amended: with a non-empty separator, every segment that is not
\* empty after trimming and in which splitToken is empty or does not occur
\* is an entry whose key is the trimmed segment; its value is the trimmed
\* segment too, unless a later segment that contains splitToken gives the
\* same key, whose value then stands.
C15_NonBlankSegmentKept ==
    (out.op = "toMap" /\ SeparatorToken # <<>>) =>
       \A i \in DOMAIN Segments :
          (~RawHasSplit(i) /\ Trimmed(i) # <<>>) =>
             /\ Trimmed(i) \in DOMAIN out.ret
             /\ out.ret[Trimmed(i)] = SegVal(LastGiving(Trimmed(i)))
             /\ (\A j \in DOMAIN Segments : j > i /\ HasSplit(j) => SegKey(j) # Trimmed(i))
                   => out.ret[Trimmed(i)] = Trimmed(i)

\* two segments without the split token, each its own key and value
C15_Witness ==
    /\ out.op = "toMap"
    /\ out.arg = << <<"=">>, <<";">> >>
    /\ str = <<"a", ";", "a", "a">>
    /\ out.ret = [k \in {<<"a">>, <<"a", "a">>} |-> k]

\* C16: toMap with an empty separatorToken gives the empty map, whatever the
\* text and the splitToken.
C16_EmptySeparatorEmptyMap ==
    (out.op = "toMap" /\ SeparatorToken = <<>>) =>
       /\ DOMAIN out.ret = {}
       /\ out.ret = <<>>

\* a text with a split token in it, converted with an empty separator
C16_Witness ==
    /\ out.op = "toMap"
    /\ out.arg = << <<"=">>, <<>> >>
    /\ str = <<"a", "=", "a", ";">>
    /\ out.ret = <<>>

\* C17: when neither token occurs in the text, toMap gives the empty map.
C17_NeitherTokenOccurs ==
    (/\ out.op = "toMap"
     /\ find(str, SplitToken, 0) = npos
     /\ find(str, SeparatorToken, 0) = npos) =>
       out.ret = <<>>

(***************************************************************************)
(* Properties of String::split and of the loops of String.                 *)
(***************************************************************************)
\* the occurrences of d in text counted from the left, none overlapping
\* the one before it
RECURSIVE Occurrences(_, _)
Occurrences(text, d) ==
    IF Len(text) < Len(d) THEN 0
    ELSE IF SubSeq(text, 1, Len(d)) = d
         THEN 1 + Occurrences(SubSeq(text, Len(d) + 1, Len(text)), d)
         ELSE Occurrences(Tail(text), d)

\* the segments joined again, the delimiter between each two
RECURSIVE Join(_, _)
Join(segments, d) ==
    IF Len(segments) = 1 THEN segments[1]
    ELSE segments[1] \o d \o Join(Tail(segments), d)

\* C18: for a non-empty delimiter, split returns one segment more than the
\* text has non-overlapping occurrences of the delimiter, empty segments
\* included, and the segments joined by the delimiter are the text again.
C18_SplitJoins ==
    (out.op = "split" /\ out.arg # <<>>) =>
       /\ out.end = "return"
       /\ Len(out.ret) = Occurrences(str, out.arg) + 1
       /\ Join(out.ret, out.arg) = str

\* two delimiters next to each other gave an empty segment between them
C18_Witness ==
    /\ out.op = "split"
    /\ out.arg = <<";">>
    /\ str = <<"a", ";", ";", "a">>
    /\ out.ret = << <<"a">>, <<>>, <<"a">> >>

\* C19: split, splitByToken, replace and getWordFrequencies return, for
\* every text and every argument, the empty delimiter, token and oldStr
\* included.
C19_EveryCallReturns ==
    out.op \in {"split", "splitByToken", "replace", "getWordFrequencies"} =>
       out.end = "return"


(***************************************************************************)
(* Conversions between the wrappers and the standard containers: each one  *)
(* copy-constructs the container, element by element.                      *)
(***************************************************************************)
\* std::vector<T>(const std::vector<T> &)
vector_copy_dropsLast(data) == [i \in 1..(Len(data) - 1) |-> data[i]]

vector_copy(data) == [i \in 1..Len(data) |-> data[i]]

\* std::map<Key, Value, Compare>(const std::map &)
map_copy(data) == [k \in DOMAIN data |-> data[k]]

\* std::vector<T> stdVec = vec
Vector_toStdVector ==
    VecStep(vec, Returned("operator std::vector", 0, vector_copy(vec)))

\* const auto &stdVec = vec.getStdVector(): data itself, not a copy
Vector_getStdVector ==
    VecStep(vec, Returned("getStdVector", 0, vec))

\* Vector<T> back(stdVec), of the std::vector the last step gave
Vector_fromStdVector ==
    /\ out.op \in {"operator std::vector", "getStdVector"}
    /\ VecStep(vec, Returned("Vector(const std::vector &)", out.ret, vector_copy(out.ret)))

\* std::map<Key, Value> stdMap = m
Map_toStdMap(m) ==
    MapStep(m, DataOf(m), Returned("operator std::map", <<m>>, map_copy(DataOf(m))))

\* Map<Key, Value> back(stdMap), of the std::map the last step gave
Map_fromStdMap ==
    /\ out.op = "operator std::map"
    /\ MapStep(out.arg[1], DataOf(out.arg[1]),
               Returned("Map(const std::map &)", out.arg, map_copy(out.ret)))

\* a program that fills a Vector and a Map and converts them
NextConv ==
    \/ \E value \in Elems : Vector_pushBack(value)
    \/ Vector_popBack
    \/ \E value \in Pairs : Map_assign("a", value)
    \/ \E key \in Keys : Map_erase("a", key)
    \/ Vector_toStdVector
    \/ Vector_getStdVector
    \/ Vector_fromStdVector
    \/ Map_toStdMap("a")
    \/ Map_fromStdMap

SpecConv == InitVec /\ [][NextConv]_vars

\* C20: a Vector converted to std::vector and back is equal to the
\* original: as long, with the same elements at the same positions; a Map
\* converted to std::map and back has the same keys with the same values;
\* and no conversion changes the original.
C20_RoundTrip ==
    /\ []((out.op = "Vector(const std::vector &)") =>
             /\ out.ret = vec
             /\ Len(out.ret) = Len(vec)
             /\ \A i \in DOMAIN vec : out.ret[i] = vec[i])
    /\ []((out.op = "Map(const std::map &)") =>
             /\ out.ret = DataOf(out.arg[1])
             /\ DOMAIN out.ret = DOMAIN DataOf(out.arg[1])
             /\ \A k \in DOMAIN out.ret : out.ret[k] = DataOf(out.arg[1])[k])
    /\ [][out'.op \in {"operator std::vector", "getStdVector", "operator std::map",
                       "Vector(const std::vector &)", "Map(const std::map &)"}
             => vec' = vec /\ amap' = amap /\ bmap' = bmap]_vars

\* a Vector with a repeated element went to std::vector and back, in a
\* program that also holds a Map of two entries
C20_Witness ==
    /\ out.op = "Vector(const std::vector &)"
    /\ out.ret = <<2, 1, 2>>
    /\ vec = <<2, 1, 2>>
    /\ DOMAIN amap = {1, 3}
    /\ amap[1] # amap[3]

(***************************************************************************)
(* Copies and moves of Vector, Map and String.  A program of one class     *)
(* (cls) has two objects of it, 1 and 2; a constructor makes an object     *)
(* anew from the other one, an assignment may also name the object itself. *)
(* The three classes hand the operation to their data member: std::vector, *)
(* std::map and std::string copy by value, and a std::vector or std::map   *)
(* that is moved from is left empty.  String declares no move operation.   *)
(***************************************************************************)
ValueClasses == {"Vector", "Map", "String"}
MovableClasses == {"Vector", "Map"}
Sides == {1, 2}

\* the data of the two objects of class c
Contents(c) ==
    IF c = "Vector" THEN <<vec, vec2>>
    ELSE IF c = "Map" THEN <<amap, bmap>>
    ELSE <<str, str2>>

\* what a program adds to an object: pushBack(value), operator[] with an
\* assignment, append(c)
Additions(c) ==
    IF c = "Vector" THEN {1, 2}
    ELSE IF c = "Map" THEN Pairs
    ELSE {"a", "="}

HasRoom(c, data) ==
    IF c = "Vector" THEN Len(data) < MaxLen
    ELSE IF c = "Map" THEN TRUE
    ELSE Len(data) < MaxText

\* a step that leaves the two objects of class c with the data in pair
ValueStep(c, pair, o) ==
    /\ cls = c
    /\ vec' = IF c = "Vector" THEN pair[1] ELSE vec
    /\ vec2' = IF c = "Vector" THEN pair[2] ELSE vec2
    /\ amap' = IF c = "Map" THEN pair[1] ELSE amap
    /\ bmap' = IF c = "Map" THEN pair[2] ELSE bmap
    /\ str' = IF c = "String" THEN pair[1] ELSE str
    /\ str2' = IF c = "String" THEN pair[2] ELSE str2
    /\ out' = o
    /\ UNCHANGED ptrVars

\* Vector(const Vector &other) : data(other.data) {}, and so Map and String
copyCtor(c, d, s) ==
    /\ d # s
    /\ ValueStep(c, [Contents(c) EXCEPT ![d] = Contents(c)[s]],
                 Returned("copy constructor", <<d, s>>, 0))

\* if (this != &other) data = other.data; return *this;
copyAssign(c, d, s) ==
    ValueStep(c, IF d # s THEN [Contents(c) EXCEPT ![d] = Contents(c)[s]]
                 ELSE Contents(c),
              Returned("copy assignment", <<d, s>>, 0))

\* Vector(Vector &&other) noexcept : data(std::move(other.data)) {}, and so Map
moveCtor(c, d, s) ==
    /\ c \in MovableClasses
    /\ d # s
    /\ ValueStep(c, [Contents(c) EXCEPT ![d] = Contents(c)[s], ![s] = <<>>],
                 Returned("move constructor", <<d, s>>, 0))

moveAssign_keepsSource(c, d, s) ==
    /\ c \in MovableClasses
    /\ ValueStep(c, [Contents(c) EXCEPT ![d] = Contents(c)[s]],
                 Returned("move assignment", <<d, s>>, 0))

\* data = std::move(other.data); return *this;  There is no test of
\* this != &other: a container moved to itself is left in a valid state the
\* standard does not specify (empty with libstdc++).
moveAssign(c, d, s) ==
    /\ c \in MovableClasses
    /\ \E left \in (IF d # s THEN {Contents(c)[s]} ELSE {<<>>, Contents(c)[s]}) :
          ValueStep(c, [[Contents(c) EXCEPT ![s] = <<>>] EXCEPT ![d] = left],
                    Returned("move assignment", <<d, s>>, 0))

\* v.pushBack(value), m[key] = value, s.append(c) on the object x
add(c, x, e) ==
    /\ HasRoom(c, Contents(c)[x])
    /\ ValueStep(c, [Contents(c) EXCEPT ![x] =
                        IF c = "Map" THEN assign(@, e) ELSE Append(@, e)],
                 Returned("add", <<x, e>>, 0))

\* x.clear()
clear(c, x) ==
    ValueStep(c, [Contents(c) EXCEPT ![x] = <<>>], Returned("clear", <<x, x>>, 0))

InitValue ==
    /\ cls \in ValueClasses
    /\ kind = [p \in Ptrs |-> "none"]
    /\ ptr = [p \in Ptrs |-> Null]
    /\ objType = [o \in Objs |-> "unalloc"]
    /\ objVal = [o \in Objs |-> 0]
    /\ useCnt = [o \in Objs |-> 0]
    /\ dels = [o \in Objs |-> 0]
    /\ last = Ok("none", 0)
    /\ ContIdle

NextValue ==
    \/ \E c \in ValueClasses, d, s \in Sides : copyCtor(c, d, s)
    \/ \E c \in ValueClasses, d, s \in Sides : copyAssign(c, d, s)
    \/ \E c \in ValueClasses, d, s \in Sides : moveCtor(c, d, s)
    \/ \E c \in ValueClasses, d, s \in Sides : moveAssign(c, d, s)
    \/ \E c \in ValueClasses, x \in Sides : \E e \in Additions(c) : add(c, x, e)
    \/ \E c \in ValueClasses, x \in Sides : clear(c, x)

SpecValue == InitValue /\ [][NextValue]_vars

\* the operations that copy, that move and that modify one object
CopyOps == {"copy constructor", "copy assignment"}
MoveOps == {"move constructor", "move assignment"}
ModifyOps == {"add", "clear"}

\* C28 as stated: after a copy the destination equals the source and the
\* source is as it was; a modification of one object leaves the other as
\* it was; after every move construction and move assignment of a Vector or
\* a Map the destination has what the source had and the source is empty.
C28_CopiesAndEveryMove ==
    [][LET before == Contents(cls)
           after == Contents(cls)'
           d == out'.arg[1]
           s == out'.arg[2]
       IN  /\ out'.op \in CopyOps =>
                 after[d] = before[s] /\ after[s] = before[s] /\ after[d] = after[s]
           /\ out'.op \in ModifyOps =>
                 \A y \in Sides \ {d} : after[y] = before[y]
           /\ out'.op \in MoveOps =>
                 after[d] = before[s] /\ after[s] = <<>>
      ]_vars

\* C28 amended: as stated for copies and modifications; after a move
\* construction, or a move assignment from another object, the destination
\* has what the source had and the source is empty; a move assignment of an
\* object to itself leaves the other object as it was and the object itself
\* either empty or as it was.
C28_CopiesAndMovesFromAnother ==
    [][LET before == Contents(cls)
           after == Contents(cls)'
           d == out'.arg[1]
           s == out'.arg[2]
       IN  /\ out'.op \in CopyOps =>
                 after[d] = before[s] /\ after[s] = before[s] /\ after[d] = after[s]
           /\ out'.op \in ModifyOps =>
                 \A y \in Sides \ {d} : after[y] = before[y]
           /\ out'.op \in MoveOps /\ d # s =>
                 after[d] = before[s] /\ after[s] = <<>>
           /\ out'.op \in MoveOps /\ d = s =>
                 /\ after[d] \in {<<>>, before[d]}
                 /\ \A y \in Sides \ {d} : after[y] = before[y]
      ]_vars

\* a Map of two entries has been move-assigned to the other Map, which is
\* left holding them, and is empty
C28_Witness ==
    /\ cls = "Map"
    /\ out.op = "move assignment"
    /\ out.arg = <<2, 1>>
    /\ amap = <<>>
    /\ Cardinality(DOMAIN bmap) = 2


\* text with every occurrence of old, found from the left and not
\* overlapping an earlier one, replaced by new; what is put in is not read again
RECURSIVE ReplaceAll(_, _, _)
ReplaceAll(text, old, new) ==
    IF Len(text) < Len(old) THEN text
    ELSE IF SubSeq(text, 1, Len(old)) = old
         THEN new \o ReplaceAll(SubSeq(text, Len(old) + 1, Len(text)), old, new)
         ELSE <<Head(text)>> \o ReplaceAll(Tail(text), old, new)

\* C30: replace(oldStr, newStr) with a non-empty oldStr returns, also when
\* newStr contains oldStr, and leaves the text with every occurrence of
\* oldStr that a scan from the left finds, none overlapping an earlier one,
\* replaced by newStr and every other character as it was and in its order.
C30_ReplacesEveryOccurrence ==
    [][out'.op = "replace" /\ out'.arg[1] # <<>> =>
          /\ out'.end = "return"
          /\ str' = ReplaceAll(str, out'.arg[1], out'.arg[2])
      ]_vars

\* replace("a", "aa") has doubled the two letters of "a;a": what it put in
\* contains what it looks for and was not replaced again
C30_Witness ==
    /\ out.op = "replace"
    /\ out.arg = << <<"a">>, <<"a", "a">> >>
    /\ out.end = "return"
    /\ str = <<"a", "a", ";", "a", "a">>


(***************************************************************************)
(* Properties of the construction of a String and of its operations on     *)
(* characters.                                                             *)
(***************************************************************************)
\* C23: String(n, c), written with the count first and the character second
\* as the tests write it, is the text of n copies of c, of length n.
C23_CountCopiesOfChar ==
    out.op = "String" =>
       /\ Len(str) = out.arg[1]
       /\ \A i \in DOMAIN str : str[i] = out.arg[2]

\* C24: toStringVector() returns as many elements as the text has characters
\* and its i-th element is the text of one character, the i-th of the text;
\* toCharVector() returns the characters of the text, as many and in order.
C24_OneElementPerChar ==
    /\ out.op = "toStringVector" =>
          /\ Len(out.ret) = Len(str)
          /\ \A i \in DOMAIN str : out.ret[i] = <<str[i]>>
    /\ out.op = "toCharVector" =>
          /\ Len(out.ret) = Len(str)
          /\ \A i \in DOMAIN str : out.ret[i] = str[i]

\* the sum of the values of a map
RECURSIVE SumOfValues(_)
SumOfValues(f) ==
    IF DOMAIN f = {} THEN 0
    ELSE LET k == CHOOSE x \in DOMAIN f : TRUE
         IN  f[k] + SumOfValues([x \in DOMAIN f \ {k} |-> f[x]])

\* C25: the keys of countCharacters() are the characters that occur in the
\* text, the value of a key is the number of positions that hold it, the
\* values add up to the length of the text, and a character that does not
\* occur has no entry.
C25_CountsEveryChar ==
    out.op = "countCharacters" =>
       /\ DOMAIN out.ret = {str[i] : i \in DOMAIN str}
       /\ \A c \in DOMAIN out.ret :
             out.ret[c] = Cardinality({i \in DOMAIN str : str[i] = c})
       /\ SumOfValues(out.ret) = Len(str)
       /\ \A c \in Chars : (\A i \in DOMAIN str : str[i] # c) => c \notin DOMAIN out.ret

\* countCharacters() of a text in which one character occurs twice, apart,
\* and another once
C25_Witness ==
    /\ out.op = "countCharacters"
    /\ Len(str) = 3
    /\ str[1] = str[3] /\ str[1] # str[2]
    /\ out.ret[str[1]] = 2 /\ out.ret[str[2]] = 1

\* the pieces of a text between separators: the maximal runs of characters
\* none of which is in seps, as pairs of their first and last position
Runs(text, seps) ==
    {r \in (DOMAIN text) \X (DOMAIN text) :
        /\ r[1] <= r[2]
        /\ \A k \in r[1]..r[2] : text[k] \notin seps
        /\ r[1] = 1 \/ text[r[1] - 1] \in seps
        /\ r[2] = Len(text) \/ text[r[2] + 1] \in seps}

Piece(text, r) == SubSeq(text, r[1], r[2])

Whitespace == {" ", "\t"}

\* C26 as stated: the keys of getWordFrequencies() are the words of the text
\* that whitespace of any kind (spaces, tabs, runs of them) delimits, each
\* with the number of times it occurs; no key is empty and no key contains
\* whitespace.
C26_WhitespaceDelimitedWords ==
    out.op = "getWordFrequencies" =>
       /\ DOMAIN out.ret = {Piece(str, r) : r \in Runs(str, Whitespace)}
       /\ \A w \in DOMAIN out.ret :
             /\ out.ret[w] = Cardinality({r \in Runs(str, Whitespace) : Piece(str, r) = w})
             /\ w # <<>>
             /\ \A k \in DOMAIN w : w[k] \notin Whitespace

\* C26 amended: the keys of getWordFrequencies() are the pieces of the text
\* between spaces, each trimmed of the whitespace at its two ends, the
\* pieces that are empty after trimming left out; the value of a key is the
\* number of pieces that trim to it; no key is empty, contains a space or
\* starts or ends with whitespace (a tab inside a piece stays in the key).
C26_SpaceDelimitedWords ==
    out.op = "getWordFrequencies" =>
       /\ DOMAIN out.ret = {trim(Piece(str, r)) : r \in Runs(str, {" "})} \ {<<>>}
       /\ \A w \in DOMAIN out.ret :
             /\ out.ret[w] = Cardinality({r \in Runs(str, {" "}) : trim(Piece(str, r)) = w})
             /\ w # <<>>
             /\ \A k \in DOMAIN w : w[k] # " "
             /\ w[1] \notin Whitespace /\ w[Len(w)] \notin Whitespace

\* getWordFrequencies() of a text in which a tab stands between two letters
\* and a space follows: the one key is the piece with the tab in it
C26_Witness ==
    /\ out.op = "getWordFrequencies"
    /\ str = <<"a", "\t", "b", " ">>
    /\ DOMAIN out.ret = {<<"a", "\t", "b">>}
    /\ out.ret[<<"a", "\t", "b">>] = 1

\* the NUL character
Nul == "\\0"

\* C27: charAt(index) returns the character at index when index is below
\* the length and the NUL character otherwise, and leaves the text as it
\* was; setCharAt(index, c) puts c at index and changes no other position
\* when index is below the length, and leaves the text, its length
\* included, as it was otherwise; both return and raise nothing.
C27_IndexedAccessChecked ==
    [][/\ out'.op = "charAt" =>
             /\ out'.end = "return"
             /\ str' = str
             /\ out'.ret = IF out'.arg < Len(str) THEN str[out'.arg + 1] ELSE Nul
       /\ out'.op = "setCharAt" =>
             /\ out'.end = "return"
             /\ Len(str') = Len(str)
             /\ IF out'.arg[1] < Len(str)
                THEN /\ str'[out'.arg[1] + 1] = out'.arg[2]
                     /\ \A k \in DOMAIN str : k # out'.arg[1] + 1 => str'[k] = str[k]
                ELSE str' = str
      ]_vars

\* setCharAt(1, c) has changed the middle character of a text of three
C27_Witness ==
    /\ out.op = "setCharAt"
    /\ out.arg[1] = 1
    /\ Len(str) = 3
    /\ str[2] = out.arg[2]
    /\ str[1] # str[2] /\ str[3] # str[2]


====
